---- MODULE Spec2Model ----
(***************************************************************************)
(* A model of urules (universal-rules): the three rule converters (Cursor, *)
(* Windsurf, Claude) and the .gitignore merger.                            *)
(*                                                                         *)
(* Text.  A Rust String is modelled as a sequence of symbols.  A symbol is *)
(* either one of the characters the code inspects one by one ("\n", "\r",  *)
(* " ", "/", "-") or a word: a run of other characters that the code only  *)
(* ever copies or compares as a whole (".cursor", "CLAUDE.md", the marker  *)
(* texts, a rule body word).                                               *)
(***************************************************************************)
EXTENDS Integers, Sequences, FiniteSets, TLC

VARIABLES
    gitignore,   \* <output_dir>/.gitignore: Some(content), or NoFile
    merges,      \* history: one record per update_gitignore call, oldest first
    rules,       \* the rule list handed to the last converter call
    files,       \* output files: a function from the existing paths to their content
    dirs,        \* the directories that exist under the output directory
    outcome,     \* the last converter call: Some([agent, result, before]),
                 \* before being the files it found; or NoCall
    converted,   \* the last result of convert_to_cursor_rule, or NoCall
    rules_dir,   \* the entries of the rules directory, in the order of the walk
    parsed,      \* the last call of parse_rule_file: Some([file, result]), or NoCall
    run          \* the last run of main: Some(record), or NoCall

vars == <<gitignore, merges, rules, files, dirs, outcome, converted,
          rules_dir, parsed, run>>

\* Option<T>: None is the empty sequence, Some(x) the one-element sequence.
None == <<>>
Some(x) == <<x>>
IsSome(o) == o # <<>>
Unwrap(o) == o[1]

\* A file that does not exist is None, one that exists is Some(content).
NoFile == None
NoCall == None

(***************************************************************************)
(* Bounds of the model.                                                    *)
(***************************************************************************)
MaxLines == 3
MaxCalls == 2
MaxRules == 2
MaxFiles == 2

(***************************************************************************)
(* main.rs: enum AgentName.                                                *)
(***************************************************************************)
AgentName == {"Cursor", "Windsurf", "Claude"}

(***************************************************************************)
(* String helpers of the Rust standard library, as the code uses them.     *)
(***************************************************************************)
NL == "\n"
CR == "\r"

\* char::is_whitespace, restricted to the symbols of the model
Whitespace == {" ", "\t", "\n", "\r"}

RECURSIVE trim_start(_)
trim_start(s) ==
    IF s # <<>> /\ Head(s) \in Whitespace THEN trim_start(Tail(s)) ELSE s

RECURSIVE trim_end(_)
trim_end(s) ==
    IF s # <<>> /\ s[Len(s)] \in Whitespace
    THEN trim_end(SubSeq(s, 1, Len(s) - 1))
    ELSE s

trim(s) == trim_end(trim_start(s))

\* str::trim_matches(c): strips every leading and trailing c
RECURSIVE trim_matches(_, _)
trim_matches(s, c) ==
    IF s # <<>> /\ Head(s) = c THEN trim_matches(Tail(s), c)
    ELSE IF s # <<>> /\ s[Len(s)] = c
         THEN trim_matches(SubSeq(s, 1, Len(s) - 1), c)
         ELSE s

\* str::trim_end_matches(c): strips every trailing c
RECURSIVE trim_end_matches(_, _)
trim_end_matches(s, c) ==
    IF s # <<>> /\ s[Len(s)] = c
    THEN trim_end_matches(SubSeq(s, 1, Len(s) - 1), c)
    ELSE s

ends_with(s, t) ==
    /\ Len(t) <= Len(s)
    /\ SubSeq(s, Len(s) - Len(t) + 1, Len(s)) = t

starts_with(s, t) ==
    /\ Len(t) <= Len(s)
    /\ SubSeq(s, 1, Len(t)) = t

\* index of the first "\n" of s, 0 when there is none
RECURSIVE FindNewline(_, _)
FindNewline(s, i) ==
    IF i > Len(s) THEN 0
    ELSE IF s[i] = NL THEN i
    ELSE FindNewline(s, i + 1)

\* BufRead::lines / str::lines: the text cut at each "\n"; a line that was
\* terminated by "\n" also loses one "\r" before it; a last line without
\* "\n" is yielded as it stands; nothing is yielded after a final "\n".
RECURSIVE lines(_)
lines(s) ==
    IF s = <<>> THEN <<>>
    ELSE LET n == FindNewline(s, 1) IN
         IF n = 0 THEN <<s>>
         ELSE LET raw == SubSeq(s, 1, n - 1)
                  line == IF raw # <<>> /\ raw[Len(raw)] = CR
                          THEN SubSeq(raw, 1, Len(raw) - 1)
                          ELSE raw
              IN <<line>> \o lines(SubSeq(s, n + 1, Len(s)))

(***************************************************************************)
(* universal_rule.rs: UniversalRule with its frontmatter flattened.        *)
(***************************************************************************)
UniversalRule(name, description, globs, apply_globally, cursor_rule_type, content) ==
    [ name |-> name,
      description |-> description,
      globs |-> globs,
      apply_globally |-> apply_globally,
      cursor_rule_type |-> cursor_rule_type,
      content |-> content ]

(***************************************************************************)
(* The output directory.  A path is the tuple of its components below the  *)
(* output directory; a file name is the tuple <<stem, extension>>.  Every  *)
(* converter is a straight line of filesystem operations, each followed by *)
(* `?`: it is modelled as the list of these operations, of which the one   *)
(* numbered fail_at fails (0: none does).  A failing operation changes     *)
(* nothing and ends the call with Err; the operations before it stay done. *)
(***************************************************************************)
NoFiles == [ p \in {} |-> <<>> ]

CreateDirAll(path) == [ kind |-> "create_dir_all", path |-> path, content |-> <<>> ]
WriteFile(path, content) == [ kind |-> "write", path |-> path, content |-> content ]

\* fs::create_dir_all: the directory and every ancestor of it
Ancestors(path) == { SubSeq(path, 1, k) : k \in 1..Len(path) }

\* Mutant: a write does not replace a file that exists.
ApplyOp_keep_existing(fs, op) ==
    IF op.kind = "create_dir_all"
    THEN [ fs EXCEPT !.dirs = @ \cup Ancestors(op.path) ]
    ELSE [ fs EXCEPT !.files = [ p \in DOMAIN @ \cup {op.path} |->
                                   IF p \in DOMAIN @ THEN @[p] ELSE op.content ] ]

ApplyOp(fs, op) ==
    IF op.kind = "create_dir_all"
    THEN [ fs EXCEPT !.dirs = @ \cup Ancestors(op.path) ]
    ELSE [ fs EXCEPT !.files = [ p \in DOMAIN @ \cup {op.path} |->
                                   IF p = op.path THEN op.content ELSE @[p] ] ]

\* Mutant: a failure undoes the operations that went before it.
RECURSIVE Execute_rollback(_, _, _)
Execute_rollback(fs, ops, fail_at) ==
    IF ops = <<>> THEN [ fs |-> fs, result |-> "Ok" ]
    ELSE IF fail_at = 1 THEN [ fs |-> fs, result |-> "Err" ]
    ELSE LET rest == Execute_rollback(ApplyOp(fs, Head(ops)), Tail(ops),
                                      IF fail_at = 0 THEN 0 ELSE fail_at - 1)
         IN IF rest.result = "Err" THEN [ fs |-> fs, result |-> "Err" ] ELSE rest

\* The operations of one call, run in order until the one that fails.
RECURSIVE Execute(_, _, _)
Execute(fs, ops, fail_at) ==
    IF ops = <<>> THEN [ fs |-> fs, result |-> "Ok" ]
    ELSE IF fail_at = 1 THEN [ fs |-> fs, result |-> "Err" ]
    ELSE Execute(ApplyOp(fs, Head(ops)), Tail(ops),
                 IF fail_at = 0 THEN 0 ELSE fail_at - 1)

(***************************************************************************)
(* converters/cursor.rs                                                    *)
(***************************************************************************)
Dashes == <<"-", "-", "-">>

\* Mutant: "AutoAttached" writes agent_requested = Some(false).
convert_to_cursor_rule_explicit_false(universal_rule) ==
    << [ description |-> universal_rule.description,
         globs |-> universal_rule.globs,
         always_apply |->
             IF universal_rule.cursor_rule_type = Some("Always")
             THEN Some(TRUE) ELSE None,
         agent_requested |->
             IF universal_rule.cursor_rule_type = Some("AgentRequested")
             THEN Some(TRUE)
             ELSE IF universal_rule.cursor_rule_type = Some("AutoAttached")
             THEN Some(FALSE)
             ELSE None ],
       universal_rule.content >>

\* convert_to_cursor_rule: (MdcFrontmatter, body)
convert_to_cursor_rule(universal_rule) ==
    << [ description |-> universal_rule.description,
         globs |-> universal_rule.globs,
         always_apply |->
             IF universal_rule.cursor_rule_type = Some("Always")
             THEN Some(TRUE) ELSE None,
         agent_requested |->
             IF universal_rule.cursor_rule_type = Some("AgentRequested")
             THEN Some(TRUE) ELSE None ],
       universal_rule.content >>

RECURSIVE YamlSequence(_)
YamlSequence(items) ==
    IF items = <<>> THEN <<>>
    ELSE <<"-", " ", "\"">> \o Head(items) \o <<"\"", NL>>
         \o YamlSequence(Tail(items))

YamlBool(b) == IF b THEN <<"true">> ELSE <<"false">>

\* serde_yaml::to_string(&MdcFrontmatter): one entry per field that is Some,
\* camelCase keys, in the order of the struct's fields; "{}" when none is
MdcFrontmatterYaml(mdc_frontmatter) ==
    LET entries ==
          (IF IsSome(mdc_frontmatter.description)
           THEN <<"description:", " ">> \o Unwrap(mdc_frontmatter.description)
                \o <<NL>>
           ELSE <<>>)
          \o (IF IsSome(mdc_frontmatter.globs)
              THEN IF Unwrap(mdc_frontmatter.globs) = <<>>
                   THEN <<"globs:", " ", "[]", NL>>
                   ELSE <<"globs:", NL>>
                        \o YamlSequence(Unwrap(mdc_frontmatter.globs))
              ELSE <<>>)
          \o (IF IsSome(mdc_frontmatter.always_apply)
              THEN <<"alwaysApply:", " ">>
                   \o YamlBool(Unwrap(mdc_frontmatter.always_apply)) \o <<NL>>
              ELSE <<>>)
          \o (IF IsSome(mdc_frontmatter.agent_requested)
              THEN <<"agentRequested:", " ">>
                   \o YamlBool(Unwrap(mdc_frontmatter.agent_requested)) \o <<NL>>
              ELSE <<>>)
    IN IF entries = <<>> THEN <<"{}", NL>> ELSE entries

frontmatter_yaml(mdc_frontmatter) ==
    IF /\ mdc_frontmatter.description = None
       /\ mdc_frontmatter.globs = None
       /\ mdc_frontmatter.always_apply = None
       /\ mdc_frontmatter.agent_requested = None
    THEN <<>>
    ELSE MdcFrontmatterYaml(mdc_frontmatter)

\* Mutant: the header delimiters are written for every rule.
mdc_content_always_header(rule) ==
    LET conv == convert_to_cursor_rule(rule) IN
    Dashes \o <<NL>> \o trim_end(frontmatter_yaml(conv[1]))
    \o Dashes \o <<NL>> \o conv[2]

\* mdc_content: the text of the rule's .mdc file
mdc_content(rule) ==
    LET conv == convert_to_cursor_rule(rule)
        yaml == frontmatter_yaml(conv[1])
    IN IF yaml = <<>>
       THEN conv[2]
       ELSE Dashes \o <<NL>> \o trim_end(yaml) \o Dashes \o <<NL>> \o conv[2]

cursor_rules_dir == <<".cursor", "rules">>

CursorRulePath(rule) == Append(cursor_rules_dir, <<rule.name, ".mdc">>)

\* CursorConverter::generate_rules: its filesystem operations, in order
CursorOps(rs) ==
    <<CreateDirAll(cursor_rules_dir)>>
    \o [ i \in 1..Len(rs) |-> WriteFile(CursorRulePath(rs[i]), mdc_content(rs[i])) ]

(***************************************************************************)
(* converters/windsurf.rs                                                  *)
(***************************************************************************)
RuleSeparator == <<NL, NL, "-", "-", "-", NL, NL>>

DescriptionComment(rule) ==
    IF IsSome(rule.description)
    THEN <<"# Description: ">> \o Unwrap(rule.description) \o <<NL>>
    ELSE <<>>

\* Mutant: every rule is collected, whatever its apply_globally.
RECURSIVE global_rules_content_all_rules(_)
global_rules_content_all_rules(rs) ==
    IF rs = <<>> THEN <<>>
    ELSE DescriptionComment(Head(rs)) \o Head(rs).content \o RuleSeparator
         \o global_rules_content_all_rules(Tail(rs))

\* global_rules_content after the first pass
RECURSIVE global_rules_content(_)
global_rules_content(rs) ==
    IF rs = <<>> THEN <<>>
    ELSE (IF Head(rs).apply_globally
          THEN DescriptionComment(Head(rs)) \o Head(rs).content \o RuleSeparator
          ELSE <<>>)
         \o global_rules_content(Tail(rs))

\* Mutant: the flag is raised by any rule.
has_workspace_rules_any_rule(rs) == rs # <<>>

has_workspace_rules(rs) == \E i \in 1..Len(rs) : ~rs[i].apply_globally

\* format!("{:?}", globs): ["a", "b"]
RECURSIVE DebugItems(_)
DebugItems(items) ==
    IF items = <<>> THEN <<>>
    ELSE <<"\"">> \o Head(items) \o <<"\"">>
         \o (IF Tail(items) = <<>> THEN <<>> ELSE <<",", " ">>)
         \o DebugItems(Tail(items))

GlobsComment(rule) ==
    IF IsSome(rule.globs) /\ Unwrap(rule.globs) # <<>>
    THEN <<"# Globs: ", "[">> \o DebugItems(Unwrap(rule.globs)) \o <<"]", NL>>
    ELSE <<>>

\* Mutant: the newline after the comments is always pushed.
individual_rule_content_always_blank(rule) ==
    DescriptionComment(rule) \o GlobsComment(rule) \o <<NL>> \o rule.content

individual_rule_content(rule) ==
    LET comments == DescriptionComment(rule) \o GlobsComment(rule) IN
    comments \o (IF comments # <<>> THEN <<NL>> ELSE <<>>) \o rule.content

windsurf_workspace_rules_dir == <<".windsurf", "rules">>

WindsurfRulePath(rule) == Append(windsurf_workspace_rules_dir, <<rule.name, ".md">>)

GlobalRulesPath == << <<"global_rules", ".md">> >>

\* Mutant: the trailing separator is not removed.
WindsurfOps_trailing_separator(rs) ==
    LET content == global_rules_content(rs)
        workspace == SelectSeq(rs, LAMBDA r : ~r.apply_globally)
    IN (IF content # <<>>
        THEN <<WriteFile(GlobalRulesPath, content)>>
        ELSE <<>>)
       \o (IF has_workspace_rules(rs)
           THEN <<CreateDirAll(windsurf_workspace_rules_dir)>>
                \o [ i \in 1..Len(workspace) |->
                       WriteFile(WindsurfRulePath(workspace[i]),
                                 individual_rule_content(workspace[i])) ]
           ELSE <<>>)

\* WindsurfConverter::generate_rules: its filesystem operations, in order
WindsurfOps(rs) ==
    LET content == global_rules_content(rs)
        workspace == SelectSeq(rs, LAMBDA r : ~r.apply_globally)
    IN (IF content # <<>>
        THEN <<WriteFile(GlobalRulesPath,
                         IF ends_with(content, RuleSeparator)
                         THEN SubSeq(content, 1, Len(content) - Len(RuleSeparator))
                         ELSE content)>>
        ELSE <<>>)
       \o (IF has_workspace_rules(rs)
           THEN <<CreateDirAll(windsurf_workspace_rules_dir)>>
                \o [ i \in 1..Len(workspace) |->
                       WriteFile(WindsurfRulePath(workspace[i]),
                                 individual_rule_content(workspace[i])) ]
           ELSE <<>>)

(***************************************************************************)
(* converters/claude.rs                                                    *)
(***************************************************************************)
\* Mutant: without a description nothing follows the heading line.
rule_block_no_blank(rule) ==
    <<"## Rule: ", rule.name, NL>>
    \o (IF IsSome(rule.description)
        THEN Unwrap(rule.description) \o <<NL, NL>>
        ELSE <<>>)
    \o rule.content

rule_block(rule) ==
    <<"## Rule: ", rule.name, NL>>
    \o (IF IsSome(rule.description)
        THEN Unwrap(rule.description) \o <<NL, NL>>
        ELSE <<NL>>)
    \o rule.content

\* Mutant: the separator also follows the last part.
RECURSIVE join_trailing(_, _)
join_trailing(parts, sep) ==
    IF parts = <<>> THEN <<>>
    ELSE Head(parts) \o sep \o join_trailing(Tail(parts), sep)

\* [String]::join
RECURSIVE join(_, _)
join(parts, sep) ==
    IF parts = <<>> THEN <<>>
    ELSE IF Tail(parts) = <<>> THEN Head(parts)
    ELSE Head(parts) \o sep \o join(Tail(parts), sep)

final_claude_content(rs) ==
    join([ i \in 1..Len(rs) |-> rule_block(rs[i]) ], RuleSeparator)

ClaudePath == << <<"CLAUDE", ".md">> >>

\* Mutant: the early return for an empty list is missing.
ClaudeOps_no_early_return(rs) ==
    <<WriteFile(ClaudePath, final_claude_content(rs))>>

\* ClaudeConverter::generate_rules: its filesystem operations, in order
ClaudeOps(rs) ==
    IF rs = <<>> THEN <<>>
    ELSE <<WriteFile(ClaudePath, final_claude_content(rs))>>

(***************************************************************************)
(* rule_parser.rs.  A rule file is a record [dir, stem, ext, kind, text]:  *)
(* the directories below the root, the file stem and extension, whether    *)
(* the entry is a regular file or a directory, and its text (None when the *)
(* file cannot be read).                                                   *)
(***************************************************************************)
\* index of the first occurrence of t in s at or after i, 0 when none
RECURSIVE FindSub(_, _, _)
FindSub(s, t, i) ==
    IF i + Len(t) - 1 > Len(s) THEN 0
    ELSE IF SubSeq(s, i, i + Len(t) - 1) = t THEN i
    ELSE FindSub(s, t, i + 1)

\* str::splitn(n, pat): at most n parts, the last one holding the rest
RECURSIVE splitn(_, _, _)
splitn(s, n, pat) ==
    LET k == FindSub(s, pat, 1) IN
    IF n <= 1 \/ k = 0 THEN <<s>>
    ELSE <<SubSeq(s, 1, k - 1)>> \o splitn(SubSeq(s, k + Len(pat), Len(s)), n - 1, pat)

\* Iterator::next().unwrap_or("") on the parts from the k-th on
PartOr(parts, k) == IF k <= Len(parts) THEN parts[k] ELSE <<>>

\* UniversalRuleFrontmatter::default()
DefaultFrontmatter ==
    [ description |-> None, globs |-> None, apply_globally |-> FALSE,
      cursor_rule_type |-> None ]

YamlKeys == {"description:", "globs:", "apply_globally:", "cursor_rule_type:"}

\* the items of a flow sequence ["a", "b"], without quotes and commas
FlowItems(val) ==
    LET inner == SubSeq(val, 2, Len(val) - 1)
        words == SelectSeq(inner, LAMBDA c : c \notin {"\"", ",", " "})
    IN [ k \in 1..Len(words) |-> <<words[k]>> ]

\* One `key: value` line of the document, applied to the frontmatter so
\* far; ok is FALSE when the line is not a well-formed entry of the struct.
YamlEntry(acc, line) ==
    IF ~acc.ok \/ Len(line) < 3 \/ line[1] \notin YamlKeys \/ line[2] # " "
       \/ line[1] \in acc.seen
    THEN [acc EXCEPT !.ok = FALSE]
    ELSE LET val == SubSeq(line, 3, Len(line))
             got == [acc EXCEPT !.seen = @ \cup {line[1]}]
         IN CASE line[1] = "description:" ->
                   [got EXCEPT !.fm.description = Some(val)]
              [] line[1] = "cursor_rule_type:" ->
                   IF Len(val) = 1
                   THEN [got EXCEPT !.fm.cursor_rule_type = Some(val[1])]
                   ELSE [got EXCEPT !.ok = FALSE]
              [] line[1] = "apply_globally:" ->
                   IF val \in {<<"true">>, <<"false">>}
                   THEN [got EXCEPT !.fm.apply_globally = (val = <<"true">>)]
                   ELSE [got EXCEPT !.ok = FALSE]
              [] line[1] = "globs:" ->
                   IF val[1] = "[" /\ val[Len(val)] = "]" /\ Len(val) >= 2
                   THEN [got EXCEPT !.fm.globs = Some(FlowItems(val))]
                   ELSE [got EXCEPT !.ok = FALSE]

RECURSIVE YamlEntries(_, _)
YamlEntries(acc, ls) ==
    IF ls = <<>> THEN acc ELSE YamlEntries(YamlEntry(acc, Head(ls)), Tail(ls))

\* serde_yaml::from_str::<UniversalRuleFrontmatter>, for documents made of
\* one-line entries
from_str(frontmatter_str) ==
    YamlEntries([ok |-> TRUE, seen |-> {}, fm |-> DefaultFrontmatter],
                lines(frontmatter_str))

\* Mutant: the body is trimmed at both ends.
SplitFrontmatter_trim_body(file_content) ==
    IF starts_with(file_content, Dashes)
    THEN LET parts == splitn(file_content, 3, Dashes) IN
         <<trim(PartOr(parts, 2)), trim(PartOr(parts, 3))>>
    ELSE <<<<>>, file_content>>

\* (frontmatter_str, content_str)
SplitFrontmatter(file_content) ==
    IF starts_with(file_content, Dashes)
    THEN LET parts == splitn(file_content, 3, Dashes) IN
         <<trim(PartOr(parts, 2)), trim_start(PartOr(parts, 3))>>
    ELSE <<<<>>, file_content>>

\* parse_rule_file: [ok |-> TRUE, rule |-> the rule], or ok |-> FALSE for Err
parse_rule_file(file) ==
    IF file.text = None THEN [ok |-> FALSE, rule |-> <<>>]
    ELSE LET split == SplitFrontmatter(Unwrap(file.text))
             frontmatter == IF split[1] = <<>>
                            THEN [ok |-> TRUE, fm |-> DefaultFrontmatter]
                            ELSE from_str(split[1])
         IN IF ~frontmatter.ok THEN [ok |-> FALSE, rule |-> <<>>]
            ELSE [ok |-> TRUE,
                  rule |-> UniversalRule(file.stem,
                                         frontmatter.fm.description,
                                         frontmatter.fm.globs,
                                         frontmatter.fm.apply_globally,
                                         frontmatter.fm.cursor_rule_type,
                                         split[2])]

\* Mutant: the first file that fails to parse ends the walk.
RECURSIVE discover_and_parse_rules_stop_at_error(_)
discover_and_parse_rules_stop_at_error(entries) ==
    IF entries = <<>> THEN <<>>
    ELSE LET e == Head(entries) IN
         IF e.kind = "file" /\ e.ext = "md"
         THEN IF parse_rule_file(e).ok
              THEN <<parse_rule_file(e).rule>>
                   \o discover_and_parse_rules_stop_at_error(Tail(entries))
              ELSE <<>>
         ELSE discover_and_parse_rules_stop_at_error(Tail(entries))

\* discover_and_parse_rules over the entries the walk yields: the rules
\* pushed, in walk order (the function itself always returns Ok)
RECURSIVE discover_and_parse_rules(_)
discover_and_parse_rules(entries) ==
    IF entries = <<>> THEN <<>>
    ELSE LET e == Head(entries) IN
         (IF e.kind = "file" /\ e.ext = "md" /\ parse_rule_file(e).ok
          THEN <<parse_rule_file(e).rule>>
          ELSE <<>>)
         \o discover_and_parse_rules(Tail(entries))

(***************************************************************************)
(* gitignore_manager.rs                                                    *)
(***************************************************************************)
GITIGNORE_HEADER == <<"# Added by urules">>
GITIGNORE_FOOTER == <<"# End urules section">>

\* Mutant: the two Windsurf patterns stand in the other order.
patterns_to_add_swapped(agent_name) ==
    CASE agent_name = "Cursor" -> << <<".cursor", "/">> >>
      [] agent_name = "Windsurf" -> << <<".windsurf", "/">>, <<"global_rules.md">> >>
      [] agent_name = "Claude" -> << <<"CLAUDE.md">> >>

\* patterns_to_add: the fixed pattern list of each agent
patterns_to_add(agent_name) ==
    CASE agent_name = "Cursor" -> << <<".cursor", "/">> >>
      [] agent_name = "Windsurf" -> << <<"global_rules.md">>, <<".windsurf", "/">> >>
      [] agent_name = "Claude" -> << <<"CLAUDE.md">> >>

\* The state of the read loop before the first line.
ParseStart ==
    [ existing_lines |-> {},
      pre_content |-> <<>>,
      urules_section_content |-> <<>>,
      post_content |-> <<>>,
      in_urules_section |-> FALSE,
      urules_header_found |-> FALSE ]

\* Mutant: an empty line also closes the section.
ParseLine_blank_closes(st, line) ==
    IF trim(line) = GITIGNORE_HEADER
    THEN [st EXCEPT !.in_urules_section = TRUE, !.urules_header_found = TRUE]
    ELSE IF (trim(line) = GITIGNORE_FOOTER \/ line = <<>>) /\ st.in_urules_section
    THEN [st EXCEPT !.in_urules_section = FALSE]
    ELSE IF st.urules_header_found /\ st.in_urules_section
    THEN [st EXCEPT !.urules_section_content = @ \o line \o <<NL>>,
                    !.existing_lines = @ \cup {trim(line)}]
    ELSE IF ~st.urules_header_found
    THEN [st EXCEPT !.pre_content = @ \o line \o <<NL>>,
                    !.existing_lines = @ \cup {trim(line)}]
    ELSE [st EXCEPT !.post_content = @ \o line \o <<NL>>]

\* Mutant: only the first start marker opens the section.
ParseLine_first_marker_only(st, line) ==
    IF trim(line) = GITIGNORE_HEADER /\ ~st.urules_header_found
    THEN [st EXCEPT !.in_urules_section = TRUE, !.urules_header_found = TRUE]
    ELSE IF trim(line) = GITIGNORE_FOOTER /\ st.in_urules_section
    THEN [st EXCEPT !.in_urules_section = FALSE]
    ELSE IF st.urules_header_found /\ st.in_urules_section
    THEN [st EXCEPT !.urules_section_content = @ \o line \o <<NL>>,
                    !.existing_lines = @ \cup {trim(line)}]
    ELSE IF ~st.urules_header_found
    THEN [st EXCEPT !.pre_content = @ \o line \o <<NL>>,
                    !.existing_lines = @ \cup {trim(line)}]
    ELSE [st EXCEPT !.post_content = @ \o line \o <<NL>>]

\* Mutant: the lines after the end marker are remembered as well.
ParseLine_post_counts(st, line) ==
    IF trim(line) = GITIGNORE_HEADER
    THEN [st EXCEPT !.in_urules_section = TRUE, !.urules_header_found = TRUE]
    ELSE IF trim(line) = GITIGNORE_FOOTER /\ st.in_urules_section
    THEN [st EXCEPT !.in_urules_section = FALSE]
    ELSE IF st.urules_header_found /\ st.in_urules_section
    THEN [st EXCEPT !.urules_section_content = @ \o line \o <<NL>>,
                    !.existing_lines = @ \cup {trim(line)}]
    ELSE IF ~st.urules_header_found
    THEN [st EXCEPT !.pre_content = @ \o line \o <<NL>>,
                    !.existing_lines = @ \cup {trim(line)}]
    ELSE [st EXCEPT !.post_content = @ \o line \o <<NL>>,
                    !.existing_lines = @ \cup {trim(line)}]

\* One iteration of the read loop.
ParseLine(st, line) ==
    IF trim(line) = GITIGNORE_HEADER
    THEN [st EXCEPT !.in_urules_section = TRUE, !.urules_header_found = TRUE]
    ELSE IF trim(line) = GITIGNORE_FOOTER /\ st.in_urules_section
    THEN [st EXCEPT !.in_urules_section = FALSE]
    ELSE IF st.urules_header_found /\ st.in_urules_section
    THEN [st EXCEPT !.urules_section_content = @ \o line \o <<NL>>,
                    !.existing_lines = @ \cup {trim(line)}]
    ELSE IF ~st.urules_header_found
    THEN [st EXCEPT !.pre_content = @ \o line \o <<NL>>,
                    !.existing_lines = @ \cup {trim(line)}]
    ELSE [st EXCEPT !.post_content = @ \o line \o <<NL>>]

RECURSIVE ParseLines(_, _)
ParseLines(st, ls) ==
    IF ls = <<>> THEN st ELSE ParseLines(ParseLine(st, Head(ls)), Tail(ls))

\* The whole read phase: an absent file leaves every region empty.
ParseGitignore(content) ==
    IF content = NoFile THEN ParseStart
    ELSE ParseLines(ParseStart, lines(Unwrap(content)))

\* The five spellings under which a pattern counts as present.
variations(pattern_to_check) ==
    LET trimmed_pattern == trim_matches(pattern_to_check, "/") IN
    << pattern_to_check,
       <<"/">> \o trimmed_pattern,
       trimmed_pattern \o <<"/">>,
       <<"/">> \o trimmed_pattern \o <<"/">>,
       trimmed_pattern >>

\* Mutant: only the pattern as written is looked up.
is_present_exact_only(existing_lines, pattern_to_check) ==
    trim(pattern_to_check) \in existing_lines

is_present(existing_lines, pattern_to_check) ==
    \E i \in 1..5 : trim(variations(pattern_to_check)[i]) \in existing_lines

\* final_new_patterns: the required patterns that are not present, in order
\* Mutant: only the first pattern of the format is looked for.
final_new_patterns_first_only(existing_lines, agent_name) ==
    SelectSeq(SubSeq(patterns_to_add(agent_name), 1, 1),
              LAMBDA p : ~is_present(existing_lines, p))

final_new_patterns(existing_lines, agent_name) ==
    SelectSeq(patterns_to_add(agent_name),
              LAMBDA p : ~is_present(existing_lines, p))

\* The second look before a new pattern is pushed.
NotAlreadyListed(st, pattern) ==
    /\ \A i \in 1..Len(lines(st.urules_section_content)) :
           trim(lines(st.urules_section_content)[i]) # trim(pattern)
    /\ \A i \in 1..Len(lines(st.pre_content)) :
           trim(lines(st.pre_content)[i]) # trim(pattern)

RECURSIVE PushPatterns(_, _)
PushPatterns(st, ps) ==
    IF ps = <<>> THEN <<>>
    ELSE (IF NotAlreadyListed(st, Head(ps)) THEN Head(ps) \o <<NL>> ELSE <<>>)
         \o PushPatterns(st, Tail(ps))

\* Mutant: the end marker is pushed after post_content.
new_gitignore_content_footer_last(st, new_patterns) ==
    st.pre_content
    \o GITIGNORE_HEADER \o <<NL>>
    \o st.urules_section_content
    \o PushPatterns(st, new_patterns)
    \o st.post_content
    \o GITIGNORE_FOOTER \o <<NL>>

\* Mutant: the section is started afresh, its old lines are not copied.
new_gitignore_content_fresh_section(st, new_patterns) ==
    st.pre_content
    \o (IF st.pre_content # <<>> /\ ~ends_with(st.pre_content, <<NL>>)
        THEN <<NL>> ELSE <<>>)
    \o GITIGNORE_HEADER \o <<NL>>
    \o PushPatterns(st, new_patterns)
    \o GITIGNORE_FOOTER \o <<NL>>
    \o st.post_content

\* new_gitignore_content, as rebuilt from the three regions
new_gitignore_content(st, new_patterns) ==
    st.pre_content
    \o (IF st.pre_content # <<>> /\ ~ends_with(st.pre_content, <<NL>>)
        THEN <<NL>> ELSE <<>>)
    \o GITIGNORE_HEADER \o <<NL>>
    \o st.urules_section_content
    \o PushPatterns(st, new_patterns)
    \o GITIGNORE_FOOTER \o <<NL>>
    \o st.post_content

\* Mutant: the no-op short-circuit is missing.
MustWrite_always(st, new_patterns) == TRUE

\* Mutant: the short-circuit tests in_urules_section instead of
\* urules_header_found.
MustWrite_wrong_flag(st, new_patterns) ==
    new_patterns # <<>> \/ ~st.in_urules_section

\* Mutant: the file is rewritten only when a pattern is missing.
MustWrite_only_new(st, new_patterns) == new_patterns # <<>>

\* Whether the call rewrites the file.
MustWrite(st, new_patterns) ==
    new_patterns # <<>> \/ ~st.urules_header_found

\* Mutant: the rebuilt content is written as it is, trailing newlines kept.
update_gitignore_untrimmed(content, agent_name) ==
    LET st == ParseGitignore(content)
        new_patterns == final_new_patterns(st.existing_lines, agent_name)
    IN IF MustWrite(st, new_patterns)
       THEN [ wrote |-> TRUE, result |-> "Ok",
              content |-> Some(new_gitignore_content(st, new_patterns)) ]
       ELSE [ wrote |-> FALSE, result |-> "Ok", content |-> content ]

\* update_gitignore as a function of the file it finds, every read and write
\* succeeding: whether it writes, the content of the file when it returns,
\* and the Result returned (no path of the code but a failed `?` gives Err).
update_gitignore(content, agent_name) ==
    LET st == ParseGitignore(content)
        new_patterns == final_new_patterns(st.existing_lines, agent_name)
    IN IF MustWrite(st, new_patterns)
       THEN [ wrote |-> TRUE, result |-> "Ok",
              content |-> Some(trim_end_matches(
                                   new_gitignore_content(st, new_patterns), NL)
                               \o <<NL>>) ]
       ELSE [ wrote |-> FALSE, result |-> "Ok", content |-> content ]

(***************************************************************************)
(* The .gitignore files the merger is started on: up to MaxLines lines     *)
(* drawn from GitignoreLines, each ended by "\n", except that the last     *)
(* line may lack its "\n".                                                 *)
(***************************************************************************)
GitignoreLines ==
    { <<>>,
      GITIGNORE_HEADER,
      GITIGNORE_FOOTER,
      <<"/", ".cursor", "/">>,
      <<".windsurf">>,
      <<"CLAUDE.md", CR>> }

RECURSIVE JoinLines(_)
JoinLines(ls) ==
    IF ls = <<>> THEN <<>> ELSE Head(ls) \o <<NL>> \o JoinLines(Tail(ls))

InitialGitignores ==
    {NoFile}
    \cup { Some(JoinLines(ls)) :
             ls \in UNION { [1..n -> GitignoreLines] : n \in 0..MaxLines } }
    \cup { Some(trim_end_matches(JoinLines(ls), NL)) :
             ls \in UNION { [1..n -> GitignoreLines] : n \in 1..MaxLines } }

(***************************************************************************)
(* State machine.                                                          *)
(***************************************************************************)
InitIgnore ==
    /\ gitignore \in InitialGitignores
    /\ merges = <<>>
    /\ rules = <<>>
    /\ files = NoFiles
    /\ dirs = {}
    /\ outcome = NoCall
    /\ converted = NoCall
    /\ rules_dir = <<>>
    /\ parsed = NoCall
    /\ run = NoCall

\* One call of update_gitignore(output_dir, agent_name), start to return,
\* in a history of at most `calls` calls.
UpdateGitignoreUpTo(agent_name, calls) ==
    /\ Len(merges) < calls
    /\ LET r == update_gitignore(gitignore, agent_name) IN
       /\ gitignore' = r.content
       /\ merges' = Append(merges, [ agent |-> agent_name,
                                     before |-> gitignore,
                                     wrote |-> r.wrote,
                                     result |-> r.result ])
    /\ UNCHANGED <<rules, files, dirs, outcome, converted, rules_dir, parsed, run>>

UpdateGitignore(agent_name) == UpdateGitignoreUpTo(agent_name, MaxCalls)

NextIgnore == \E a \in AgentName : UpdateGitignore(a)

SpecIgnore == InitIgnore /\ [][NextIgnore]_vars

(***************************************************************************)
(* Files with more than one start marker, merged once.                     *)
(***************************************************************************)
MaxMarkerLines == 5

MarkerLines ==
    { GITIGNORE_HEADER, GITIGNORE_FOOTER, <<"x">>, <<".cursor", "/">> }

MarkerGitignores ==
    { Some(JoinLines(ls)) :
        ls \in { l \in UNION { [1..n -> MarkerLines] : n \in 2..MaxMarkerLines } :
                   Cardinality({ i \in DOMAIN l : l[i] = GITIGNORE_HEADER }) > 1 } }

InitIgnoreMarkers ==
    /\ gitignore \in MarkerGitignores
    /\ merges = <<>>
    /\ rules = <<>>
    /\ files = NoFiles
    /\ dirs = {}
    /\ outcome = NoCall
    /\ converted = NoCall
    /\ rules_dir = <<>>
    /\ parsed = NoCall
    /\ run = NoCall

NextIgnoreOnce == \E a \in AgentName : UpdateGitignoreUpTo(a, 1)

SpecIgnoreMarkers == InitIgnoreMarkers /\ [][NextIgnoreOnce]_vars

(***************************************************************************)
(* Longer histories of calls, from an absent file and from short files.    *)
(***************************************************************************)
MaxMerges == 3
MaxSequenceLines == 2

SequenceGitignores ==
    {NoFile}
    \cup { Some(JoinLines(ls)) :
             ls \in UNION { [1..n -> GitignoreLines] : n \in 0..MaxSequenceLines } }

InitIgnoreSequence ==
    /\ gitignore \in SequenceGitignores
    /\ merges = <<>>
    /\ rules = <<>>
    /\ files = NoFiles
    /\ dirs = {}
    /\ outcome = NoCall
    /\ converted = NoCall
    /\ rules_dir = <<>>
    /\ parsed = NoCall
    /\ run = NoCall

NextIgnoreSequence == \E a \in AgentName : UpdateGitignoreUpTo(a, MaxMerges)

SpecIgnoreSequence == InitIgnoreSequence /\ [][NextIgnoreSequence]_vars

(***************************************************************************)
(* The rules the converters are run on.  Each converter gets every         *)
(* combination of the fields it reads, over a few values each.             *)
(***************************************************************************)
RuleNames == {"a", "b"}
Descriptions == { None, Some(<<"d">>) }
GlobLists == { None, Some(<<>>), Some(<< <<"*.rs">>, <<"*.toml">> >>) }
RuleTypes ==
    { None, Some("Always"), Some("AutoAttached"), Some("AgentRequested"),
      Some("Manual"), Some("always"), Some("Sometimes") }
PlainBody == <<"B">>
\* a Markdown body with a horizontal rule in it
RuledBody == <<"B", NL, NL, "-", "-", "-", NL, NL, "C">>
\* a Markdown body that ends in a horizontal rule
RuleEndedBody == <<"B", NL, NL, "-", "-", "-", NL>>
\* a rule file with nothing after its metadata
EmptyBody == <<>>

Metadata ==
    { <<None, None>>, <<Some(<<"d">>), None>>, <<None, Some(<<>>)>>,
      <<Some(<<"d">>), Some(<< <<"*.rs">>, <<"*.toml">> >>)>> }

CursorRules ==
    { UniversalRule(n, m[1], m[2], FALSE, t, b) :
        n \in RuleNames, m \in Metadata, t \in {None, Some("Always")},
        b \in {PlainBody, RuledBody} }

WindsurfRules ==
    { UniversalRule(n, m[1], m[2], g, None, b) :
        n \in RuleNames, m \in Metadata, g \in BOOLEAN,
        b \in {RuledBody, EmptyBody} }

ClaudeRules ==
    { UniversalRule(n, d, None, FALSE, None, b) :
        n \in RuleNames, d \in Descriptions,
        b \in {PlainBody, RuledBody, RuleEndedBody, EmptyBody} }

AllRules ==
    { UniversalRule(n, d, g, a, t, b) :
        n \in RuleNames, d \in Descriptions, g \in GlobLists, a \in BOOLEAN,
        t \in RuleTypes, b \in {PlainBody, RuledBody} }

RuleLists(S) == UNION { [1..n -> S] : n \in 0..MaxRules }

InitConvert ==
    /\ gitignore = NoFile
    /\ merges = <<>>
    /\ rules = <<>>
    /\ files = NoFiles
    /\ dirs = {}
    /\ outcome = NoCall
    /\ converted = NoCall
    /\ rules_dir = <<>>
    /\ parsed = NoCall
    /\ run = NoCall

\* An output directory that is already in use.
ExistingFiles ==
    { NoFiles,
      ClaudePath :> <<"old">>,
      (ClaudePath :> <<"old">>) @@ (<< <<"README", ".md">> >> :> <<"readme">>) }

InitExisting ==
    /\ gitignore = NoFile
    /\ merges = <<>>
    /\ rules = <<>>
    /\ files \in ExistingFiles
    /\ dirs = {}
    /\ outcome = NoCall
    /\ converted = NoCall
    /\ rules_dir = <<>>
    /\ parsed = NoCall
    /\ run = NoCall

\* One call of generate_rules on the output directory: the converter's
\* operations on the rule list rs, of which the one numbered fail_at fails.
GenerateCursor ==
    /\ outcome = NoCall
    /\ \E rs \in RuleLists(CursorRules) :
         LET ops == CursorOps(rs) IN
         \E fail_at \in 0..Len(ops) :
           LET r == Execute([files |-> files, dirs |-> dirs], ops, fail_at) IN
           /\ rules' = rs
           /\ files' = r.fs.files
           /\ dirs' = r.fs.dirs
           /\ outcome' = Some([agent |-> "Cursor", result |-> r.result,
                                before |-> files, failed |-> fail_at])
    /\ UNCHANGED <<gitignore, merges, converted, rules_dir, parsed, run>>

GenerateWindsurf ==
    /\ outcome = NoCall
    /\ \E rs \in RuleLists(WindsurfRules) :
         LET ops == WindsurfOps(rs) IN
         \E fail_at \in 0..Len(ops) :
           LET r == Execute([files |-> files, dirs |-> dirs], ops, fail_at) IN
           /\ rules' = rs
           /\ files' = r.fs.files
           /\ dirs' = r.fs.dirs
           /\ outcome' = Some([agent |-> "Windsurf", result |-> r.result,
                                before |-> files, failed |-> fail_at])
    /\ UNCHANGED <<gitignore, merges, converted, rules_dir, parsed, run>>

GenerateClaude ==
    /\ outcome = NoCall
    /\ \E rs \in RuleLists(ClaudeRules) :
         LET ops == ClaudeOps(rs) IN
         \E fail_at \in 0..Len(ops) :
           LET r == Execute([files |-> files, dirs |-> dirs], ops, fail_at) IN
           /\ rules' = rs
           /\ files' = r.fs.files
           /\ dirs' = r.fs.dirs
           /\ outcome' = Some([agent |-> "Claude", result |-> r.result,
                                before |-> files, failed |-> fail_at])
    /\ UNCHANGED <<gitignore, merges, converted, rules_dir, parsed, run>>

\* convert_to_cursor_rule applied to one rule
ConvertToCursorRule ==
    /\ converted = NoCall
    /\ \E r \in AllRules :
           /\ rules' = <<r>>
           /\ converted' = Some(convert_to_cursor_rule(r))
    /\ UNCHANGED <<gitignore, merges, files, dirs, outcome, rules_dir, parsed, run>>

SpecCursor == InitConvert /\ [][GenerateCursor]_vars
SpecWindsurf == InitConvert /\ [][GenerateWindsurf]_vars
SpecClaude == InitConvert /\ [][GenerateClaude]_vars
SpecClaudeExisting == InitExisting /\ [][GenerateClaude]_vars
SpecCursorRule == InitConvert /\ [][ConvertToCursorRule]_vars

NextConvert == GenerateCursor \/ GenerateWindsurf \/ GenerateClaude
SpecConvert == InitConvert /\ [][NextConvert]_vars

(***************************************************************************)
(* The rule files the parser is run on: an opening "---", a metadata       *)
(* block, a closing "---" and what follows it; files without a closing     *)
(* "---"; files that do not begin with "---".                              *)
(***************************************************************************)
MetadataBlocks ==
    { <<NL>>,
      <<NL, "description:", " ", "d", NL>>,
      <<NL, "description:", " ", "d", NL,
        "globs:", " ", "[", "\"", "*.rs", "\"", ",", " ", "\"", "*.toml", "\"", "]", NL,
        "apply_globally:", " ", "true", NL,
        "cursor_rule_type:", " ", "Always", NL>>,
      \* a flow sequence that is not closed
      <<NL, "globs:", " ", "[", "\"", "*.rs", "\"", NL>>,
      \* a value with three hyphens in it
      <<NL, "description:", " ", "a", "-", "-", "-", "b", NL>> }

AfterMetadata ==
    { <<NL, "B", NL>>,
      <<NL, "B">>,
      <<>>,
      <<NL, NL, " ", " ", "B", NL>>,
      <<" ", NL, "\t", "B", " ", NL>>,
      <<NL>> \o RuledBody }

RuleFileTexts ==
    { Dashes \o m \o Dashes \o a : m \in MetadataBlocks, a \in AfterMetadata }
    \cup { Dashes \o <<NL, "description:", " ", "d", NL>>,
           <<"-", "-", "-", "-", NL, "B">> }
    \cup { <<"B", NL>>, <<NL, " ", "B", NL>>, <<>>, RuledBody,
           <<" ", "-", "-", "-", NL, "B">>,
           <<"B", NL, "-", "-", "-", NL, "d", NL, "-", "-", "-", NL>> }

FileStems == {"a", "b", "rule.v2"}

RuleFile(dir, stem, ext, kind, text) ==
    [ dir |-> dir, stem |-> stem, ext |-> ext, kind |-> kind, text |-> text ]

\* what the walk can meet below the root, at two depths
EntryKinds ==
    { <<"md", "file", Some(Dashes \o <<NL, "description:", " ", "d", NL>>
                           \o Dashes \o <<NL, "B", NL>>)>>,
      <<"md", "file", Some(<<"B", NL>>)>>,
      <<"md", "file", Some(Dashes \o <<NL, "globs:", " ", "[", "\"", "*.rs", "\"", NL>>
                           \o Dashes \o <<NL, "B", NL>>)>>,
      <<"md", "file", None>>,
      <<"txt", "file", Some(<<"B", NL>>)>>,
      <<"md", "dir", None>>,
      <<"md", "error", None>> }

Entries ==
    { RuleFile(dir, stem, k[1], k[2], k[3]) :
        dir \in {<<>>, <<"nested">>}, stem \in RuleNames, k \in EntryKinds }

EntryPath(e) == <<e.dir, e.stem, e.ext>>

\* the walks of a rules directory: no path is met twice
Walks ==
    { w \in UNION { [1..n -> Entries] : n \in 0..MaxFiles } :
        \A i, j \in 1..Len(w) : i # j => EntryPath(w[i]) # EntryPath(w[j]) }

\* One call of parse_rule_file(file_path).
ParseRuleFile ==
    /\ parsed = NoCall
    /\ \E stem \in FileStems, text \in { Some(t) : t \in RuleFileTexts } \cup {None} :
         LET file == RuleFile(<<>>, stem, "md", "file", text) IN
         parsed' = Some([ call |-> "parse_rule_file", file |-> file,
                          result |-> parse_rule_file(file) ])
    /\ UNCHANGED <<gitignore, merges, rules, files, dirs, outcome, converted,
                   rules_dir, run>>

\* One call of discover_and_parse_rules(rules_dir).
DiscoverAndParseRules ==
    /\ parsed = NoCall
    /\ \E w \in Walks :
         /\ rules_dir' = w
         /\ rules' = discover_and_parse_rules(w)
         /\ parsed' = Some([ call |-> "discover_and_parse_rules", result |-> "Ok" ])
    /\ UNCHANGED <<gitignore, merges, files, dirs, outcome, converted, run>>

SpecParse == InitConvert /\ [][ParseRuleFile]_vars
SpecDiscover == InitConvert /\ [][DiscoverAndParseRules]_vars

(***************************************************************************)
(* main.rs: one run of the command line tool.  The output directory exists *)
(* when the empty path is in dirs.  `fail` tells which of the fallible     *)
(* steps of the run fails: creating the output directory, the filesystem   *)
(* operation of the converter numbered fail.converter (0: none), a read or *)
(* write of update_gitignore.                                              *)
(***************************************************************************)
NoRulesDirMessage == "Error: Rules directory does not exist."
NoRulesMessage == "No rules found"
GitignoreWarning == "Warning: Failed to update .gitignore"
SuccessMessage == "Rules generated successfully"

ConverterOps(agent, rs) ==
    CASE agent = "Cursor" -> CursorOps(rs)
      [] agent = "Windsurf" -> WindsurfOps(rs)
      [] agent = "Claude" -> ClaudeOps(rs)

\* update_gitignore with its reads and writes: a failed one returns Err
\* and the file is as it was
update_gitignore_io(content, agent_name, io_fails) ==
    IF io_fails
    THEN [ wrote |-> FALSE, result |-> "Err", content |-> content ]
    ELSE update_gitignore(content, agent_name)

\* Mutant: the --no-gitignore option is not looked at.
MergeWanted_always(cli) == TRUE

\* Whether main calls update_gitignore once the converter has returned Ok.
MergeWanted(cli) == ~cli.no_gitignore

\* Mutant: a failure of update_gitignore is returned with `?`.
FinishRun_gitignore_fatal(merge) ==
    IF merge # None /\ Unwrap(merge).result = "Err"
    THEN [ exit |-> "Err", stdout |-> <<>>, stderr |-> <<>> ]
    ELSE [ exit |-> "Ok", stdout |-> <<SuccessMessage>>, stderr |-> <<>> ]

\* The end of main, after the converter has returned Ok: merge is the
\* result of update_gitignore, None when it was not called.
FinishRun(merge) ==
    [ exit |-> "Ok",
      stdout |-> <<SuccessMessage>>,
      stderr |-> IF merge # None /\ Unwrap(merge).result = "Err"
                 THEN <<GitignoreWarning>> ELSE <<>> ]

\* main: the state it leaves and what it reports.  st holds the variables
\* gitignore, merges, files, dirs, outcome; cli the command line.
main(st, cli, walk, fail) ==
    LET found == discover_and_parse_rules(walk)
        stopped(exit, out, err) ==
            [ st |-> st, rules |-> found,
              report |-> [exit |-> exit, stdout |-> out, stderr |-> err] ]
    IN
    IF ~cli.rules_dir_exists
    THEN [ st |-> st, rules |-> <<>>,
           report |-> [exit |-> "exit(1)", stdout |-> <<>>,
                       stderr |-> <<NoRulesDirMessage>>] ]
    ELSE IF found = <<>>
    THEN stopped("Ok", <<NoRulesMessage>>, <<>>)
    ELSE IF <<>> \notin st.dirs /\ fail.output_dir
    THEN stopped("Err", <<>>, <<>>)
    ELSE
    LET conv == Execute([files |-> st.files, dirs |-> st.dirs \cup {<<>>}],
                        ConverterOps(cli.agent, found), fail.converter)
        converted_st ==
            [st EXCEPT !.files = conv.fs.files,
                       !.dirs = conv.fs.dirs,
                       !.outcome = Some([agent |-> cli.agent, result |-> conv.result,
                                         before |-> st.files])]
    IN
    IF conv.result = "Err"
    THEN [ st |-> converted_st, rules |-> found,
           report |-> [exit |-> "Err", stdout |-> <<>>, stderr |-> <<>>] ]
    ELSE IF ~MergeWanted(cli)
    THEN [ st |-> converted_st, rules |-> found, report |-> FinishRun(None) ]
    ELSE
    LET g == update_gitignore_io(st.gitignore, cli.agent, fail.gitignore) IN
    [ st |-> [converted_st EXCEPT
                !.gitignore = g.content,
                !.merges = Append(@, [ agent |-> cli.agent,
                                       before |-> st.gitignore,
                                       wrote |-> g.wrote,
                                       result |-> g.result ])],
      rules |-> found,
      report |-> FinishRun(Some(g)) ]

\* the rule files of a run
MainEntries ==
    { RuleFile(<<>>, "a", "md", "file",
               Some(Dashes \o <<NL, "description:", " ", "d", NL>>
                    \o Dashes \o <<NL, "B", NL>>)),
      RuleFile(<<>>, "b", "md", "file", Some(<<"B", NL>>)),
      RuleFile(<<"nested">>, "a", "md", "file",
               Some(Dashes \o <<NL, "globs:", " ", "[", "\"", "*.rs", "\"", NL>>
                    \o Dashes \o <<NL, "B", NL>>)) }

MainWalks ==
    { w \in UNION { [1..n -> MainEntries] : n \in 0..MaxFiles } :
        \A i, j \in 1..Len(w) : i # j => w[i] # w[j] }

Cli == [ agent : AgentName, no_gitignore : BOOLEAN, rules_dir_exists : BOOLEAN ]

InitMain ==
    /\ gitignore \in { NoFile, Some(<<"target", "/", NL>>) }
    /\ dirs = IF gitignore = NoFile THEN {} ELSE {<<>>}
    /\ merges = <<>>
    /\ rules = <<>>
    /\ files = NoFiles
    /\ outcome = NoCall
    /\ converted = NoCall
    /\ rules_dir = <<>>
    /\ parsed = NoCall
    /\ run = NoCall

\* One run of the tool, from the command line to the exit.
Main ==
    /\ run = NoCall
    /\ \E cli \in Cli, walk \in MainWalks,
          output_dir_fails \in BOOLEAN, gitignore_fails \in BOOLEAN :
         /\ ~cli.rules_dir_exists => walk = <<>>
         /\ \E fail_at \in
                0..Len(ConverterOps(cli.agent, discover_and_parse_rules(walk))) :
              \E r \in { main([ gitignore |-> gitignore, merges |-> merges,
                                files |-> files, dirs |-> dirs, outcome |-> outcome ],
                              cli, walk,
                              [ output_dir |-> output_dir_fails,
                                converter |-> fail_at,
                                gitignore |-> gitignore_fails ]) } :
                 /\ gitignore' = r.st.gitignore
                 /\ merges' = r.st.merges
                 /\ files' = r.st.files
                 /\ dirs' = r.st.dirs
                 /\ outcome' = r.st.outcome
                 /\ rules' = r.rules
                 /\ rules_dir' = walk
                 /\ run' = Some([ cli |-> cli,
                                  gitignore_before |-> gitignore,
                                  exit |-> r.report.exit,
                                  stdout |-> r.report.stdout,
                                  stderr |-> r.report.stderr ])
    /\ UNCHANGED <<converted, parsed>>

SpecMain == InitMain /\ [][Main]_vars

(***************************************************************************)
(* Reading a .gitignore for the properties below: the role of each line,   *)
(* stated from the line's position and not from the read loop.             *)
(***************************************************************************)
FileLines(f) == IF f = NoFile THEN <<>> ELSE lines(Unwrap(f))

IsStartMarker(ls, i) == trim(ls[i]) = GITIGNORE_HEADER
IsFooterText(ls, i) == trim(ls[i]) = GITIGNORE_FOOTER

\* line i follows a start marker with no end marker in between
InSection(ls, i) ==
    \E h \in 1..(i - 1) :
        /\ IsStartMarker(ls, h)
        /\ \A j \in (h + 1)..(i - 1) : ~IsFooterText(ls, j)

IsEndMarker(ls, i) == IsFooterText(ls, i) /\ InSection(ls, i)

PreIdx(ls) ==
    { i \in 1..Len(ls) : \A h \in 1..i : ~IsStartMarker(ls, h) }
SectionIdx(ls) ==
    { i \in 1..Len(ls) :
        ~IsStartMarker(ls, i) /\ ~IsFooterText(ls, i) /\ InSection(ls, i) }
PostIdx(ls) ==
    { i \in 1..Len(ls) :
        /\ ~IsStartMarker(ls, i)
        /\ ~InSection(ls, i)
        /\ \E h \in 1..(i - 1) : IsStartMarker(ls, h) }

\* the lines of ls at the indices of S, in order
RECURSIVE Pick(_, _, _)
Pick(ls, S, i) ==
    IF i > Len(ls) THEN <<>>
    ELSE (IF i \in S THEN <<ls[i]>> ELSE <<>>) \o Pick(ls, S, i + 1)

PreLines(ls) == Pick(ls, PreIdx(ls), 1)
SectionLines(ls) == Pick(ls, SectionIdx(ls), 1)
PostLines(ls) == Pick(ls, PostIdx(ls), 1)

\* the five spellings the specification lists for a pattern
Spellings(p) ==
    LET bare == SelectSeq(p, LAMBDA c : c # "/") IN
    { p, <<"/">> \o bare, bare \o <<"/">>, <<"/">> \o bare \o <<"/">>, bare }

\* pattern p is spelled on a line before the start marker or in the section
Listed(ls, p) ==
    \E i \in PreIdx(ls) \cup SectionIdx(ls) : trim(ls[i]) \in Spellings(p)

\* the number of lines that read p
Occurrences(ls, p) == Cardinality({ i \in 1..Len(ls) : trim(ls[i]) = p })

RequiredPatterns(agent_name) ==
    { patterns_to_add(agent_name)[k] : k \in 1..Len(patterns_to_add(agent_name)) }

\* The call that has just returned: merges[i].before is the file it found
\* and gitignore the file it left.  Every earlier call of the history was
\* the last call of an earlier state, where the same property is checked.
MergeIdx == IF merges = <<>> THEN {} ELSE {Len(merges)}

(***************************************************************************)
(* C1: running update_gitignore twice in succession with the same format   *)
(* leaves the file byte-identical to its content after the first run, and  *)
(* the second run performs no write.                                       *)
(***************************************************************************)
C1_SecondRunIsNoOp ==
    \A i \in MergeIdx :
        (i > 1 /\ merges[i].agent = merges[i - 1].agent)
            => (~merges[i].wrote /\ gitignore = merges[i].before)

C1_Witness ==
    \E i \in MergeIdx :
        /\ i > 1
        /\ merges[i].agent = merges[i - 1].agent
        /\ merges[i - 1].wrote
        /\ merges[i - 1].before # NoFile

(***************************************************************************)
(* C2: a required pattern that is already spelled, under one of the five   *)
(* variations, on a line before the start marker or inside the managed     *)
(* section gets no line added by update_gitignore.                         *)
(***************************************************************************)
C2_NoDuplicateForVariation ==
    \A i \in MergeIdx :
        \A p \in RequiredPatterns(merges[i].agent) :
            Listed(FileLines(merges[i].before), p)
                => Occurrences(FileLines(gitignore), p)
                     = Occurrences(FileLines(merges[i].before), p)

C2_Witness ==
    \E i \in MergeIdx :
        /\ merges[i].agent = "Cursor"
        /\ merges[i].wrote
        /\ Listed(FileLines(merges[i].before), <<".cursor", "/">>)
        /\ Occurrences(FileLines(merges[i].before), <<".cursor", "/">>) = 0

(***************************************************************************)
(* C3: when the file has a start marker and every required pattern is      *)
(* already listed before the marker or in the section, update_gitignore    *)
(* writes nothing and the file stays byte-identical, even where a rewrite  *)
(* would add the missing end marker or drop trailing blank lines.          *)
(***************************************************************************)
HasStartMarker(ls) == \E i \in 1..Len(ls) : IsStartMarker(ls, i)

NothingToAdd(i) ==
    /\ HasStartMarker(FileLines(merges[i].before))
    /\ \A p \in RequiredPatterns(merges[i].agent) :
           Listed(FileLines(merges[i].before), p)

C3_NoWriteWhenNothingNew ==
    \A i \in MergeIdx :
        NothingToAdd(i) => (~merges[i].wrote /\ gitignore = merges[i].before)

\* the no-op case on a file that a rewrite would change: no end marker,
\* or ending in a blank line
C3_Witness ==
    \E i \in MergeIdx :
        /\ NothingToAdd(i)
        /\ LET ls == FileLines(merges[i].before) IN
           \/ \A j \in 1..Len(ls) : ~IsEndMarker(ls, j)
           \/ ls[Len(ls)] = <<>>

(***************************************************************************)
(* C4: update_gitignore never disturbs content outside the managed         *)
(* section: every line before the start marker or after the end marker is  *)
(* still there after the merge, unchanged, on the same side and in the     *)
(* same order.  Lines are compared without their line terminator.          *)
(***************************************************************************)
\* a line without the "\r" of a CRLF terminator
Text(l) == IF l # <<>> /\ l[Len(l)] = CR THEN SubSeq(l, 1, Len(l) - 1) ELSE l
Texts(ls) == [ i \in 1..Len(ls) |-> Text(ls[i]) ]

\* the lines before the first start marker
BeforeMarker(ls) == PreLines(ls)

\* the lines after the end marker that closes the first start marker
AfterMarker(ls) ==
    IF \E e \in 1..Len(ls) : IsEndMarker(ls, e)
    THEN LET e == CHOOSE e \in 1..Len(ls) :
                      /\ IsEndMarker(ls, e)
                      /\ \A d \in 1..(e - 1) : ~IsEndMarker(ls, d)
         IN SubSeq(ls, e + 1, Len(ls))
    ELSE <<>>

\* the original statement
C4_OutsideUntouched ==
    \A i \in MergeIdx :
        /\ Texts(BeforeMarker(FileLines(gitignore)))
             = Texts(BeforeMarker(FileLines(merges[i].before)))
        /\ Texts(AfterMarker(FileLines(gitignore)))
             = Texts(AfterMarker(FileLines(merges[i].before)))

RECURSIVE DropTrailingEmpty(_)
DropTrailingEmpty(ls) ==
    IF ls # <<>> /\ ls[Len(ls)] = <<>>
    THEN DropTrailingEmpty(SubSeq(ls, 1, Len(ls) - 1))
    ELSE ls

StartMarkers(ls) == { i \in 1..Len(ls) : IsStartMarker(ls, i) }

\* as amended: for a file with at most one start marker, and except for the
\* empty lines at the very end of a file that is rewritten
C4_OutsideKeptButTrailingBlanks ==
    \A i \in MergeIdx :
        LET old == FileLines(merges[i].before)
            new == FileLines(gitignore)
        IN Cardinality(StartMarkers(old)) <= 1 =>
             /\ Texts(BeforeMarker(new)) = Texts(BeforeMarker(old))
             /\ Texts(AfterMarker(new))
                  = IF merges[i].wrote
                    THEN DropTrailingEmpty(Texts(AfterMarker(old)))
                    ELSE Texts(AfterMarker(old))

C4_Witness ==
    \E i \in MergeIdx :
        LET old == FileLines(merges[i].before) IN
        /\ merges[i].wrote
        /\ Cardinality(StartMarkers(old)) = 1
        /\ AfterMarker(old) # <<>>
        /\ DropTrailingEmpty(Texts(AfterMarker(old))) # <<>>

(***************************************************************************)
(* C10: whenever update_gitignore rewrites the file, the content written   *)
(* is: the lines before the start marker, the start marker line, the       *)
(* previous section lines in order, each new pattern on its own line in    *)
(* the format's pattern order, the end marker line, the lines that         *)
(* followed the end marker; every line ended by "\n", all trailing "\n"    *)
(* removed and exactly one "\n" appended.                                  *)
(***************************************************************************)
NewPatterns(ls, agent_name) ==
    SelectSeq(patterns_to_add(agent_name), LAMBDA p : ~Listed(ls, p))

RECURSIVE Terminated(_)
Terminated(ls) ==
    IF ls = <<>> THEN <<>> ELSE Head(ls) \o <<NL>> \o Terminated(Tail(ls))

RECURSIVE DropTrailingNewlines(_)
DropTrailingNewlines(s) ==
    IF s # <<>> /\ s[Len(s)] = NL
    THEN DropTrailingNewlines(SubSeq(s, 1, Len(s) - 1))
    ELSE s

Rewritten(ls, agent_name) ==
    DropTrailingNewlines(
        Terminated(PreLines(ls)
                   \o <<GITIGNORE_HEADER>>
                   \o SectionLines(ls)
                   \o NewPatterns(ls, agent_name)
                   \o <<GITIGNORE_FOOTER>>
                   \o PostLines(ls)))
    \o <<NL>>

C10_RewrittenContent ==
    \A i \in MergeIdx :
        merges[i].wrote
            => gitignore
                 = Some(Rewritten(FileLines(merges[i].before), merges[i].agent))

\* a rewrite that adds both Windsurf patterns to a section that already
\* holds a line and is followed by a line after the end marker
C10_Witness ==
    \E i \in MergeIdx :
        LET ls == FileLines(merges[i].before) IN
        /\ merges[i].wrote
        /\ Len(NewPatterns(ls, merges[i].agent)) = 2
        /\ SectionLines(ls) # <<>>
        /\ PostLines(ls) # <<>>

(***************************************************************************)
(* C11: when .gitignore does not exist, update_gitignore creates it with   *)
(* exactly the start marker line, the format's required patterns one per   *)
(* line (Cursor: .cursor/; Windsurf: global_rules.md then .windsurf/;      *)
(* Claude: CLAUDE.md) and the end marker line, and returns success.        *)
(***************************************************************************)
FreshGitignore(agent_name) ==
    CASE agent_name = "Cursor" ->
           <<"# Added by urules", NL, ".cursor", "/", NL,
             "# End urules section", NL>>
      [] agent_name = "Windsurf" ->
           <<"# Added by urules", NL, "global_rules.md", NL, ".windsurf", "/", NL,
             "# End urules section", NL>>
      [] agent_name = "Claude" ->
           <<"# Added by urules", NL, "CLAUDE.md", NL,
             "# End urules section", NL>>

C11_AbsentFileCreated ==
    \A i \in MergeIdx :
        merges[i].before = NoFile
            => /\ merges[i].wrote
               /\ merges[i].result = "Ok"
               /\ gitignore = Some(FreshGitignore(merges[i].agent))

C11_Witness ==
    \E i \in MergeIdx :
        /\ merges[i].before = NoFile
        /\ merges[i].agent = "Windsurf"
        /\ Len(FileLines(gitignore)) = 4

(***************************************************************************)
(* C12: a start marker with no matching end marker is not an error: every  *)
(* line after the start marker is classified as section content, the post  *)
(* region is empty, and if the merge rewrites the file the end marker is   *)
(* emitted after all of those lines, as the last line of the file.         *)
(***************************************************************************)
FirstStartMarker(ls) ==
    CHOOSE h \in StartMarkers(ls) : \A g \in StartMarkers(ls) : h <= g

\* the lines that follow the first start marker
AfterStartMarker(ls) == SubSeq(ls, FirstStartMarker(ls) + 1, Len(ls))

Unclosed(ls) ==
    /\ HasStartMarker(ls)
    /\ \A j \in 1..Len(ls) : ~IsEndMarker(ls, j)

NoStartMarkers(ls) == Pick(ls, (1..Len(ls)) \ StartMarkers(ls), 1)

Called(agent) == IsSome(outcome) /\ Unwrap(outcome).agent = agent
Succeeded(agent) == Called(agent) /\ Unwrap(outcome).result = "Ok"

RuleIdx == 1..Len(rules)

\* no later rule of the list has the name of rule i
LastOfItsName(i) == \A j \in RuleIdx : j > i => rules[j].name # rules[i].name

\* the number of places of s at which t occurs
OccurrencesIn(s, t) ==
    Cardinality({ i \in 1..(Len(s) - Len(t) + 1) : SubSeq(s, i, i + Len(t) - 1) = t })

Contains(s, t) == \E i \in 1..(Len(s) - Len(t) + 1) : SubSeq(s, i, i + Len(t) - 1) = t

\* the parts put one after the other, sep between each two of them
RECURSIVE Interleave(_, _, _)
Interleave(parts, sep, i) ==
    IF i > Len(parts) THEN <<>>
    ELSE (IF i > 1 THEN sep ELSE <<>>) \o parts[i] \o Interleave(parts, sep, i + 1)

\* what is left of s after the prefix t
AfterPrefix(s, t) == SubSeq(s, Len(t) + 1, Len(s))

\* s is the parts from the k-th on, each but the first preceded by sep
RECURSIVE IsJoined(_, _, _, _)
IsJoined(s, parts, sep, k) ==
    IF k > Len(parts) THEN s = <<>>
    ELSE LET lead == (IF k > 1 THEN sep ELSE <<>>) \o parts[k] IN
         /\ starts_with(s, lead)
         /\ IsJoined(AfterPrefix(s, lead), parts, sep, k + 1)

(***************************************************************************)
(* C5: for each of the three converters, generate_rules on an empty rule   *)
(* list creates no file and no directory under the output directory.       *)
(***************************************************************************)
C5_EmptyListCreatesNothing ==
    (IsSome(outcome) /\ rules = <<>>) => (DOMAIN files = {} /\ dirs = {})

(***************************************************************************)
(* C6: the CLAUDE.md written for N rules holds exactly N-1 occurrences of  *)
(* the separator "\n\n---\n\n" (none for N = 1), the rule blocks standing  *)
(* in input order.                                                         *)
(***************************************************************************)
ClaudeBlock(r) ==
    <<"## Rule: ", r.name, NL>>
    \o (IF IsSome(r.description) THEN Unwrap(r.description) \o <<NL, NL>> ELSE <<NL>>)
    \o r.content

ClaudeBlocks == [ i \in RuleIdx |-> ClaudeBlock(rules[i]) ]

\* the original statement
C6_SeparatorCount ==
    (Succeeded("Claude") /\ Len(rules) >= 1)
        => OccurrencesIn(files[ClaudePath], RuleSeparator) = Len(rules) - 1

\* as amended: the blocks are joined in input order by N-1 separators, and
\* these are the only occurrences when no block holds "---" itself
C6_BlocksJoinedBySeparators ==
    (Succeeded("Claude") /\ Len(rules) >= 1)
        => /\ files[ClaudePath] = Interleave(ClaudeBlocks, RuleSeparator, 1)
           /\ (\A i \in RuleIdx : ~Contains(ClaudeBlocks[i], Dashes))
                => OccurrencesIn(files[ClaudePath], RuleSeparator) = Len(rules) - 1

C6_Witness ==
    /\ Succeeded("Claude")
    /\ Len(rules) = 2
    /\ rules[1].name # rules[2].name
    /\ \A i \in RuleIdx : ~Contains(ClaudeBlocks[i], Dashes)
    /\ OccurrencesIn(files[ClaudePath], RuleSeparator) = 1

(***************************************************************************)
(* C16: each Claude rule block is "## Rule: <name>\n<description>\n\n"     *)
(* followed by the body when there is a description and "## Rule:          *)
(* <name>\n\n" followed by the body when there is none, the body copied    *)
(* verbatim; CLAUDE.md is the joined blocks, nothing added before or       *)
(* after, nothing trimmed.                                                 *)
(***************************************************************************)
BlockWithDescription(r) ==
    <<"## Rule: ", r.name, NL>> \o Unwrap(r.description) \o <<NL, NL>> \o r.content

BlockWithoutDescription(r) == <<"## Rule: ", r.name, NL, NL>> \o r.content

Block16 ==
    [ i \in RuleIdx |->
        IF rules[i].description = None
        THEN BlockWithoutDescription(rules[i])
        ELSE BlockWithDescription(rules[i]) ]

C16_ClaudeBlockFormat ==
    (Succeeded("Claude") /\ Len(rules) >= 1)
        => /\ ClaudePath \in DOMAIN files
           /\ IsJoined(files[ClaudePath], Block16, RuleSeparator, 1)
           /\ starts_with(files[ClaudePath], <<"## Rule: ", rules[1].name, NL>>)
           /\ ends_with(files[ClaudePath], rules[Len(rules)].content)

\* a rule without a description whose body ends in a newline, after a rule
\* with a description
C16_Witness ==
    /\ Succeeded("Claude")
    /\ Len(rules) = 2
    /\ IsSome(rules[1].description)
    /\ rules[2].description = None
    /\ rules[2].content = RuleEndedBody
    /\ ends_with(files[ClaudePath], <<"-", NL>>)

(***************************************************************************)
(* C17: the Claude converter called with an empty list returns success,    *)
(* creates no CLAUDE.md and leaves an existing CLAUDE.md as it is; called  *)
(* with a non-empty list it writes exactly one file, CLAUDE.md, replacing  *)
(* any previous content.  (The second half is stated for a call whose      *)
(* write succeeds.)                                                        *)
(***************************************************************************)
FilesBefore == Unwrap(outcome).before

C17_ClaudeWritesOnlyClaudeMd ==
    Called("Claude") =>
        /\ rules = <<>> => (Succeeded("Claude") /\ files = FilesBefore /\ dirs = {})
        /\ (rules # <<>> /\ Succeeded("Claude")) =>
               /\ DOMAIN files = DOMAIN FilesBefore \cup {ClaudePath}
               /\ \A p \in DOMAIN FilesBefore \ {ClaudePath} : files[p] = FilesBefore[p]
               /\ files[ClaudePath] = Interleave(ClaudeBlocks, RuleSeparator, 1)
               /\ dirs = {}

C17_Witness ==
    /\ Succeeded("Claude")
    /\ rules = <<>>
    /\ ClaudePath \in DOMAIN FilesBefore
    /\ files[ClaudePath] = <<"old">>

\* the other half: an existing CLAUDE.md is replaced, its neighbour kept
C17_Replaced ==
    /\ Succeeded("Claude")
    /\ rules # <<>>
    /\ Cardinality(DOMAIN FilesBefore) = 2
    /\ files[ClaudePath] # <<"old">>

(***************************************************************************)
(* C7: in a Windsurf conversion a rule with apply_globally = true gets no  *)
(* file under .windsurf/rules/ and its body is part of global_rules.md; a  *)
(* rule with apply_globally = false adds nothing to global_rules.md and    *)
(* gets its own file .windsurf/rules/<name>.md and no other.               *)
(***************************************************************************)
GlobalRules == SelectSeq(rules, LAMBDA r : r.apply_globally)
WorkspaceIdx == { i \in RuleIdx : ~rules[i].apply_globally }

WindsurfBlock(r) ==
    (IF IsSome(r.description)
     THEN <<"# Description: ">> \o Unwrap(r.description) \o <<NL>>
     ELSE <<>>)
    \o r.content

RulesDirFiles == { p \in DOMAIN files : Len(p) = 3 /\ SubSeq(p, 1, 2) = <<".windsurf", "rules">> }

RECURSIVE TotalLen(_)
TotalLen(parts) == IF parts = <<>> THEN 0 ELSE Len(Head(parts)) + TotalLen(Tail(parts))

GlobalBlocks ==
    [ k \in 1..Len(GlobalRules) |->
        (IF GlobalRules[k].description = None
         THEN <<>>
         ELSE <<"# Description: ">> \o Unwrap(GlobalRules[k].description) \o <<NL>>)
        \o GlobalRules[k].content ]

C13_GlobalRulesContent ==
    Called("Windsurf") =>
        /\ (Succeeded("Windsurf") /\ GlobalRules # <<>>)
               => GlobalRulesPath \in DOMAIN files
        /\ GlobalRulesPath \in DOMAIN files =>
               LET content == files[GlobalRulesPath] IN
               /\ IsJoined(content, GlobalBlocks, RuleSeparator, 1)
               /\ Len(content) = TotalLen(GlobalBlocks)
                                   + (Len(GlobalRules) - 1) * Len(RuleSeparator)
               /\ \A j \in 1..Len(content) : content[j] # "# Globs: "

\* two global rules, the first with a description and globs, the second
\* with neither and an empty body
C13_Witness ==
    /\ Succeeded("Windsurf")
    /\ Len(GlobalRules) = 2
    /\ IsSome(GlobalRules[1].description)
    /\ IsSome(GlobalRules[1].globs) /\ Unwrap(GlobalRules[1].globs) # <<>>
    /\ GlobalRules[2].description = None
    /\ GlobalRules[2].content = <<>>
    /\ ends_with(files[GlobalRulesPath], RuleSeparator)

(***************************************************************************)
(* C14: the two Windsurf outputs are independent: global_rules.md is       *)
(* written iff the list has a rule with apply_globally = true, the         *)
(* directory .windsurf/rules is created iff it has a rule with             *)
(* apply_globally = false.  (A call that fails may have stopped before an  *)
(* output it owed; it never makes one it did not owe.)                     *)
(***************************************************************************)
HasGlobal == \E i \in RuleIdx : rules[i].apply_globally
HasWorkspace == \E i \in RuleIdx : ~rules[i].apply_globally
GlobalFileWritten == GlobalRulesPath \in DOMAIN files
RulesDirCreated == <<".windsurf", "rules">> \in dirs

C14_IndependentOutputs ==
    Called("Windsurf") =>
        /\ GlobalFileWritten => HasGlobal
        /\ RulesDirCreated => HasWorkspace
        /\ Succeeded("Windsurf") =>
               /\ HasGlobal => GlobalFileWritten
               /\ HasWorkspace => RulesDirCreated

\* the four combinations
C14_OnlyGlobal == Succeeded("Windsurf") /\ GlobalFileWritten /\ dirs = {}
C14_OnlyWorkspace == Succeeded("Windsurf") /\ ~GlobalFileWritten /\ RulesDirCreated
C14_Both == Succeeded("Windsurf") /\ GlobalFileWritten /\ RulesDirCreated
C14_Neither ==
    Succeeded("Windsurf") /\ ~GlobalFileWritten /\ dirs = {} /\ rules = <<>>

C14_Witness == C14_OnlyGlobal /\ Len(rules) = 2

(***************************************************************************)
(* C15: a Windsurf workspace file .windsurf/rules/<name>.md is: the line   *)
(* "# Description: <text>" iff there is a description, then the line       *)
(* "# Globs: [...]" iff globs is present and not empty, then one blank     *)
(* line iff one of the two was emitted, then the body verbatim; with no    *)
(* description and absent or empty globs the file equals the body.  (Of    *)
(* several rules of one name the file shows the last.)                     *)
(***************************************************************************)
\* a list in Rust's debug rendering: ["a", "b"]
RECURSIVE QuotedList(_, _)
QuotedList(items, k) ==
    IF k > Len(items) THEN <<>>
    ELSE (IF k > 1 THEN <<",", " ">> ELSE <<>>)
         \o <<"\"">> \o items[k] \o <<"\"">>
         \o QuotedList(items, k + 1)

DescriptionLine(r) ==
    IF r.description # None
    THEN <<"# Description: ">> \o Unwrap(r.description) \o <<NL>>
    ELSE <<>>

HasGlobs(r) == r.globs # None /\ Len(Unwrap(r.globs)) > 0

GlobsLine(r) ==
    IF HasGlobs(r)
    THEN <<"# Globs: ", "[">> \o QuotedList(Unwrap(r.globs), 1) \o <<"]", NL>>
    ELSE <<>>

WorkspaceFile(r) ==
    DescriptionLine(r) \o GlobsLine(r)
    \o (IF r.description # None \/ HasGlobs(r) THEN <<NL>> ELSE <<>>)
    \o r.content

C15_WorkspaceFileFormat ==
    Succeeded("Windsurf") =>
        \A i \in WorkspaceIdx :
            LastOfItsName(i) =>
                LET p == <<".windsurf", "rules", <<rules[i].name, ".md">>>> IN
                /\ p \in DOMAIN files
                /\ files[p] = WorkspaceFile(rules[i])
                /\ (rules[i].description = None /\ ~HasGlobs(rules[i]))
                       => files[p] = rules[i].content

\* one rule with both comment lines, one with empty globs and no description
C15_Witness ==
    /\ Succeeded("Windsurf")
    /\ \E i, j \in WorkspaceIdx :
           /\ rules[i].name # rules[j].name
           /\ IsSome(rules[i].description) /\ HasGlobs(rules[i])
           /\ rules[j].description = None /\ rules[j].globs = Some(<<>>)
           /\ files[<<".windsurf", "rules", <<rules[j].name, ".md">>>>]
                = rules[j].content

(***************************************************************************)
(* C8: for a rule with no description, no globs and no activation mode the *)
(* Cursor converter writes .cursor/rules/<name>.mdc with exactly the rule  *)
(* body as content, no "---" header delimiter added.  (Of several rules of *)
(* one name the file shows the last.)                                      *)
(***************************************************************************)
EmptyMetadata(r) ==
    r.description = None /\ r.globs = None /\ r.cursor_rule_type = None

C8_EmptyMetadataGivesBody ==
    Succeeded("Cursor") =>
        \A i \in RuleIdx :
            (EmptyMetadata(rules[i]) /\ LastOfItsName(i))
                => LET p == <<".cursor", "rules", <<rules[i].name, ".mdc">>>> IN
                   p \in DOMAIN files /\ files[p] = rules[i].content

C8_Witness ==
    /\ Succeeded("Cursor")
    /\ \E i \in RuleIdx :
           /\ EmptyMetadata(rules[i])
           /\ LastOfItsName(i)
           /\ Contains(rules[i].content, Dashes)
           /\ files[<<".cursor", "rules", <<rules[i].name, ".mdc">>>>] = rules[i].content

(***************************************************************************)
(* C9: convert_to_cursor_rule copies description and globs unchanged, sets *)
(* the always-apply flag to true exactly for the mode "Always" and the     *)
(* agent-requested flag to true exactly for "AgentRequested", leaves a     *)
(* flag unset otherwise, and returns the body unchanged; the two flags are *)
(* never both set and never set to false.                                  *)
(***************************************************************************)
C9_CursorMapping ==
    IsSome(converted) =>
        LET r == rules[1]
            mdc == Unwrap(converted)[1]
            body == Unwrap(converted)[2]
        IN /\ mdc.description = r.description
           /\ mdc.globs = r.globs
           /\ body = r.content
           /\ (r.cursor_rule_type = Some("Always")) <=> (mdc.always_apply = Some(TRUE))
           /\ (r.cursor_rule_type # Some("Always")) <=> (mdc.always_apply = None)
           /\ (r.cursor_rule_type = Some("AgentRequested"))
                <=> (mdc.agent_requested = Some(TRUE))
           /\ (r.cursor_rule_type # Some("AgentRequested"))
                <=> (mdc.agent_requested = None)
           /\ ~(IsSome(mdc.always_apply) /\ IsSome(mdc.agent_requested))
           /\ mdc.always_apply # Some(FALSE)
           /\ mdc.agent_requested # Some(FALSE)

\* an unrecognized mode, on a rule with globs in a given order
C9_Witness ==
    /\ IsSome(converted)
    /\ rules[1].cursor_rule_type = Some("Sometimes")
    /\ rules[1].globs = Some(<< <<"*.rs">>, <<"*.toml">> >>)
    /\ Unwrap(converted)[1].always_apply = None
    /\ Unwrap(converted)[1].agent_requested = None

(***************************************************************************)
(* C18: discover_and_parse_rules returns success with exactly one Rule for *)
(* each regular .md file under the root, at any depth, whose parse         *)
(* succeeds: a file whose parse fails is skipped and the others are not    *)
(* affected, and a file of another extension never produces a Rule.        *)
(***************************************************************************)
Discovered == IsSome(parsed) /\ Unwrap(parsed).call = "discover_and_parse_rules"

ParsableIdx ==
    { i \in 1..Len(rules_dir) :
        /\ rules_dir[i].kind = "file"
        /\ rules_dir[i].ext = "md"
        /\ parse_rule_file(rules_dir[i]).ok }

ParsedFile == IsSome(parsed) /\ Unwrap(parsed).call = "parse_rule_file"
ParsedRule == Unwrap(parsed).result.rule
FileText == Unwrap(Unwrap(parsed).file.text)

BeginsWithDashes(t) == Len(t) >= 3 /\ t[1] = "-" /\ t[2] = "-" /\ t[3] = "-"

\* where the next "---" after the opening one starts, 0 when there is none
ClosingAt(t) == FindSub(t, Dashes, 4)

\* the text after the closing "---"
AfterClosing(t) == SubSeq(t, ClosingAt(t) + 3, Len(t))

\* the text after the line of the closing "---"
AfterClosingLine(t) ==
    IF AfterClosing(t) # <<>> /\ Head(AfterClosing(t)) = NL
    THEN Tail(AfterClosing(t))
    ELSE AfterClosing(t)

AllDefault(r) ==
    /\ r.description = None
    /\ r.globs = None
    /\ r.apply_globally = FALSE
    /\ r.cursor_rule_type = None

RECURSIVE StripLeadingWhitespace(_)
StripLeadingWhitespace(t) ==
    IF t # <<>> /\ Head(t) \in {" ", "\t", NL, CR}
    THEN StripLeadingWhitespace(Tail(t))
    ELSE t

Ran == IsSome(run)
Report == Unwrap(run)
Printed(out, message) == \E k \in 1..Len(out) : out[k] = message

ConverterFailed == IsSome(outcome) /\ Unwrap(outcome).result = "Err"
MergeFailed == merges # <<>> /\ merges[Len(merges)].result = "Err"

C20_ConverterFatalGitignoreWarning ==
    Ran =>
        /\ ConverterFailed =>
               /\ Report.exit = "Err"
               /\ merges = <<>>
               /\ gitignore = Report.gitignore_before
               /\ ~Printed(Report.stdout, SuccessMessage)
        /\ MergeFailed =>
               /\ Printed(Report.stderr, GitignoreWarning)
               /\ Printed(Report.stdout, SuccessMessage)
               /\ Report.exit = "Ok"

\* a run whose conversion succeeded and whose merge failed
C20_Witness ==
    /\ Ran
    /\ MergeFailed
    /\ IsSome(outcome) /\ Unwrap(outcome).result = "Ok"
    /\ DOMAIN files # {}
    /\ Report.exit = "Ok"

\* the other half: a run stopped by a converter failure after a first file
C20_Aborted ==
    /\ Ran
    /\ ConverterFailed
    /\ DOMAIN files # {}
    /\ Report.exit = "Err"

(***************************************************************************)
(* C21: in a run of main the ignore-file merge is executed at most once,   *)
(* after the converter has returned success, and only if at least one rule *)
(* was parsed and --no-gitignore is off; in every other run (no rules      *)
(* found, --no-gitignore given, conversion failed) .gitignore is neither   *)
(* created nor modified.                                                   *)
(***************************************************************************)
ConverterSucceeded == IsSome(outcome) /\ Unwrap(outcome).result = "Ok"

C21_MergeOnlyAfterConversion ==
    Ran =>
        /\ Len(merges) <= 1
        /\ merges # <<>> =>
               /\ ConverterSucceeded
               /\ rules # <<>>
               /\ ~Report.cli.no_gitignore
               /\ merges[1].agent = Report.cli.agent
               /\ merges[1].before = Report.gitignore_before
        /\ (rules = <<>> \/ Report.cli.no_gitignore \/ ~ConverterSucceeded) =>
               /\ merges = <<>>
               /\ gitignore = Report.gitignore_before

\* a successful conversion with --no-gitignore, no .gitignore before or after
C21_Witness ==
    /\ Ran
    /\ Report.cli.no_gitignore
    /\ ConverterSucceeded
    /\ DOMAIN files # {}
    /\ Report.gitignore_before = NoFile
    /\ gitignore = NoFile
    /\ Report.exit = "Ok"

\* the merge itself: a run that creates .gitignore
C21_Merged ==
    /\ Ran
    /\ Len(merges) = 1
    /\ merges[1].wrote
    /\ Report.gitignore_before = NoFile
    /\ gitignore # NoFile

(***************************************************************************)
(* C22: rule names are not checked for uniqueness: when two rules of the   *)
(* list have the same name, the file <name>.mdc of the Cursor converter,   *)
(* and the file <name>.md of the Windsurf converter for rules that are not *)
(* global, holds the output of the rule that comes later in the list, and  *)
(* the conversion still succeeds.                                          *)
(***************************************************************************)
SameNameLater(i, j) == i < j /\ rules[i].name = rules[j].name

\* no later rule of the list that is not global has the name of rule j
LastWorkspaceOfItsName(j) ==
    \A k \in WorkspaceIdx : k > j => rules[k].name # rules[j].name

C22_LastRuleOfANameWins ==
    /\ Succeeded("Cursor") =>
           \A i, j \in RuleIdx :
               (SameNameLater(i, j) /\ LastOfItsName(j)) =>
                   files[<<".cursor", "rules", <<rules[j].name, ".mdc">>>>]
                     = mdc_content(rules[j])
    /\ Succeeded("Windsurf") =>
           \A i, j \in WorkspaceIdx :
               (SameNameLater(i, j) /\ LastWorkspaceOfItsName(j)) =>
                   files[<<".windsurf", "rules", <<rules[j].name, ".md">>>>]
                     = individual_rule_content(rules[j])

\* two Cursor rules of one name and different outputs, converted with success
C22_Witness ==
    /\ Succeeded("Cursor")
    /\ Len(rules) = 2
    /\ rules[1].name = rules[2].name
    /\ mdc_content(rules[1]) # mdc_content(rules[2])
    /\ DOMAIN files = { <<".cursor", "rules", <<rules[2].name, ".mdc">>>> }
    /\ files[<<".cursor", "rules", <<rules[2].name, ".mdc">>>>] = mdc_content(rules[2])

\* the same for two Windsurf workspace rules
C22_WindsurfCollision ==
    /\ Succeeded("Windsurf")
    /\ Len(rules) = 2
    /\ rules[1].name = rules[2].name
    /\ ~rules[1].apply_globally /\ ~rules[2].apply_globally
    /\ individual_rule_content(rules[1]) # individual_rule_content(rules[2])
    /\ files[<<".windsurf", "rules", <<rules[2].name, ".md">>>>]
         = individual_rule_content(rules[2])

(***************************************************************************)
(* C23: the Cursor converter emits no metadata header and writes exactly   *)
(* the body whenever the four Cursor metadata fields are empty or unset:   *)
(* description unset, globs unset or an empty sequence, always-apply unset *)
(* and agent-requested unset.                                              *)
(***************************************************************************)
CursorFieldsEmptyOrUnset(r) ==
    LET fm == convert_to_cursor_rule(r)[1] IN
    /\ fm.description = None
    /\ fm.globs \in { None, Some(<<>>) }
    /\ fm.always_apply = None
    /\ fm.agent_requested = None

C23_NoHeaderWhenAllEmpty ==
    Succeeded("Cursor") =>
        \A i \in RuleIdx :
            (CursorFieldsEmptyOrUnset(rules[i]) /\ LastOfItsName(i)) =>
                files[<<".cursor", "rules", <<rules[i].name, ".mdc">>>>]
                  = rules[i].content

(***************************************************************************)
(* C24: when the Cursor converter emits a metadata header, the file opens  *)
(* with a "---" line, has the lines of the fields that are set, then a     *)
(* closing "---" that stands on a line of its own, then the body: the      *)
(* closing delimiter is never appended to the end of the last metadata     *)
(* line.                                                                   *)
(***************************************************************************)
HeaderEmitted(r) == frontmatter_yaml(convert_to_cursor_rule(r)[1]) # <<>>

C24_ClosingDelimiterOnOwnLine ==
    Succeeded("Cursor") =>
        \A i \in RuleIdx :
            (HeaderEmitted(rules[i]) /\ LastOfItsName(i)) =>
                LET text == files[<<".cursor", "rules", <<rules[i].name, ".mdc">>>>] IN
                /\ starts_with(text, Dashes \o <<NL>>)
                /\ ends_with(text, <<NL>> \o Dashes \o <<NL>> \o rules[i].content)

(***************************************************************************)
(* C25: membership is tested against the lines before the start marker and *)
(* the lines of the managed section only.  A required pattern that occurs  *)
(* only after the end marker counts as not present: the merge rewrites the *)
(* file and adds the pattern to the section, and the later occurrence      *)
(* stays where it was.                                                     *)
(***************************************************************************)
SpelledAfterEndMarker(ls, p) ==
    \E k \in PostIdx(ls) : trim(ls[k]) \in Spellings(p)

AllPresentNoMarker(i) ==
    /\ ~HasStartMarker(FileLines(merges[i].before))
    /\ \A p \in RequiredPatterns(merges[i].agent) :
           Listed(FileLines(merges[i].before), p)

C26_EmptySectionAppended ==
    \A i \in MergeIdx :
        AllPresentNoMarker(i) =>
            /\ merges[i].wrote
            /\ FileLines(gitignore)
                 = Texts(FileLines(merges[i].before))
                   \o <<GITIGNORE_HEADER, GITIGNORE_FOOTER>>

C26_Witness ==
    \E i \in MergeIdx :
        /\ AllPresentNoMarker(i)
        /\ merges[i].agent = "Cursor"
        /\ merges[i].wrote
        /\ FileLines(gitignore)
             = << <<"/", ".cursor", "/">>, GITIGNORE_HEADER, GITIGNORE_FOOTER >>

(***************************************************************************)
(* C27: after any successful call the file has exactly one start marker    *)
(* line (or is the unchanged original when the call wrote nothing), an end *)
(* marker follows the start marker whenever the file was rewritten, and    *)
(* every required pattern of the format matches, in one of its five        *)
(* spellings, a line before the start marker or in the section.            *)
(***************************************************************************)
EndMarkerFollows(ls) ==
    \E h, e \in 1..Len(ls) : h < e /\ IsStartMarker(ls, h) /\ IsEndMarker(ls, e)

C27_AfterASuccessfulCall ==
    \A i \in MergeIdx :
        merges[i].result = "Ok" =>
            LET new == FileLines(gitignore) IN
            /\ merges[i].wrote =>
                   /\ Cardinality(StartMarkers(new)) = 1
                   /\ EndMarkerFollows(new)
            /\ ~merges[i].wrote => gitignore = merges[i].before
            /\ \A p \in RequiredPatterns(merges[i].agent) : Listed(new, p)

\* a Windsurf merge that finds one of its two patterns and adds the other
C27_Witness ==
    \E i \in MergeIdx :
        /\ merges[i].result = "Ok"
        /\ merges[i].agent = "Windsurf"
        /\ merges[i].wrote
        /\ Listed(FileLines(merges[i].before), <<".windsurf", "/">>)
        /\ ~Listed(FileLines(merges[i].before), <<"global_rules.md">>)
        /\ Occurrences(FileLines(gitignore), <<"global_rules.md">>) = 1
        /\ Occurrences(FileLines(gitignore), <<".windsurf", "/">>) = 0

\* a call that wrote nothing and left a file with two start markers
C27_NoOpKeepsOriginal ==
    \E i \in MergeIdx :
        /\ merges[i].result = "Ok"
        /\ ~merges[i].wrote
        /\ Cardinality(StartMarkers(FileLines(gitignore))) = 2

(***************************************************************************)
(* C28: when the file holds more than one start marker (a second one after *)
(* an end marker, or a repeated one inside the section), the read loop     *)
(* enters the section again at each of them: the lines of all the managed  *)
(* sections are collected, in order, into one section, the repeated start  *)
(* marker lines are dropped, and a merge that rewrites the file puts the   *)
(* lines that stood between two managed sections after the single end      *)
(* marker, that is after lines they came before.                           *)
(***************************************************************************)
\* the lines after an end marker that a later start marker follows
BetweenIdx(ls) ==
    { k \in PostIdx(ls) : \E h \in (k + 1)..Len(ls) : IsStartMarker(ls, h) }

\* the index of the one end marker of a rewritten file
EndMarkerIdx(ls) == CHOOSE e \in 1..Len(ls) : IsEndMarker(ls, e)

C28_SectionsCollectedIntoOne ==
    \A i \in MergeIdx :
        LET old == FileLines(merges[i].before)
            new == FileLines(gitignore)
            added == NewPatterns(old, merges[i].agent)
        IN Cardinality(StartMarkers(old)) > 1 =>
             /\ merges[i].wrote <=> added # <<>>
             /\ merges[i].wrote =>
                  /\ Cardinality(StartMarkers(new)) = 1
                  /\ PreLines(new) = Texts(PreLines(old))
                  /\ SectionLines(new) = Texts(SectionLines(old)) \o added
                  /\ PostLines(new) = DropTrailingEmpty(Texts(PostLines(old)))
                  /\ new = PreLines(new) \o <<GITIGNORE_HEADER>> \o SectionLines(new)
                           \o <<GITIGNORE_FOOTER>> \o PostLines(new)
                  /\ \A k \in BetweenIdx(old) :
                         old[k] # <<>> =>
                             \E n \in (EndMarkerIdx(new) + 1)..Len(new) : new[n] = Text(old[k])

\* two sections with a line between them: the line ends up after the lines
\* of the second section
C28_Witness ==
    \E i \in MergeIdx :
        /\ merges[i].agent = "Claude"
        /\ merges[i].wrote
        /\ FileLines(merges[i].before)
             = <<GITIGNORE_HEADER, GITIGNORE_FOOTER, <<"x">>,
                 GITIGNORE_HEADER, <<".cursor", "/">> >>
        /\ FileLines(gitignore)
             = <<GITIGNORE_HEADER, <<".cursor", "/">>, <<"CLAUDE.md">>,
                 GITIGNORE_FOOTER, <<"x">> >>

\* a pattern of the second section counts as present
C28_SecondSectionIsRead ==
    \E i \in MergeIdx :
        /\ merges[i].agent = "Cursor"
        /\ ~merges[i].wrote
        /\ FileLines(merges[i].before)
             = <<GITIGNORE_HEADER, GITIGNORE_FOOTER, <<"x">>,
                 GITIGNORE_HEADER, <<".cursor", "/">> >>

\* a start marker repeated inside the section is dropped
C28_RepeatedMarkerDropped ==
    \E i \in MergeIdx :
        /\ merges[i].agent = "Cursor"
        /\ FileLines(merges[i].before)
             = <<GITIGNORE_HEADER, <<"x">>, GITIGNORE_HEADER>>
        /\ FileLines(gitignore)
             = <<GITIGNORE_HEADER, <<"x">>, <<".cursor", "/">>, GITIGNORE_FOOTER>>

(***************************************************************************)
(* C29: over any sequence of update_gitignore calls, of whatever formats,  *)
(* on one directory, no pattern line is ever removed from the file (the    *)
(* set of lines that are neither blank nor markers only grows) and the     *)
(* managed section accumulates the patterns of every format merged so far; *)
(* starting from an absent file, once Cursor, Windsurf and Claude have     *)
(* each been merged at least once, in any order, the section holds each of *)
(* .cursor/, global_rules.md, .windsurf/ and CLAUDE.md exactly once and    *)
(* the set of lines of the file is the same for every order.               *)
(***************************************************************************)
\* the lines of the file that are neither blank nor markers
PatternLines(f) ==
    LET ls == FileLines(f) IN
    { Text(ls[k]) : k \in { j \in 1..Len(ls) :
                              /\ trim(ls[j]) # <<>>
                              /\ trim(ls[j]) # GITIGNORE_HEADER
                              /\ trim(ls[j]) # GITIGNORE_FOOTER } }

SectionSet(f) ==
    LET ls == SectionLines(FileLines(f)) IN { Text(ls[k]) : k \in 1..Len(ls) }

LineSet(f) == LET ls == FileLines(f) IN { ls[k] : k \in 1..Len(ls) }

AllPatterns == UNION { RequiredPatterns(a) : a \in AgentName }

MergedAgents == { merges[i].agent : i \in 1..Len(merges) }

\* no line that was a pattern line before any call of the history is lost
NoPatternLineRemoved ==
    \A i \in 1..Len(merges) : PatternLines(merges[i].before) \subseteq PatternLines(gitignore)

\* from an absent file, once the three formats are merged
AllMergedFromAbsent ==
    (merges # <<>> /\ merges[1].before = NoFile /\ MergedAgents = AgentName) =>
        /\ \A p \in AllPatterns :
               Occurrences(SectionLines(FileLines(gitignore)), p) = 1
        /\ LineSet(gitignore) = {GITIGNORE_HEADER, GITIGNORE_FOOTER} \cup AllPatterns
        /\ Len(FileLines(gitignore)) = 6

\* as stated: the section itself holds the patterns of every merged format
C29_SectionHoldsEveryMergedPattern ==
    /\ NoPatternLineRemoved
    /\ \A i \in 1..Len(merges) :
           \A p \in RequiredPatterns(merges[i].agent) :
               \E l \in SectionSet(gitignore) : trim(l) \in Spellings(p)
    /\ AllMergedFromAbsent

\* as amended: a pattern of a merged format is in the section unless it was
\* found before the start marker, and the section never loses a line
C29_PatternsAccumulate ==
    /\ NoPatternLineRemoved
    /\ \A i \in 1..Len(merges) :
           /\ SectionSet(merges[i].before) \subseteq SectionSet(gitignore)
           /\ \A p \in RequiredPatterns(merges[i].agent) :
                  Listed(FileLines(gitignore), p)
    /\ AllMergedFromAbsent

\* the three formats merged from an absent file, Claude first
C29_Witness ==
    /\ Len(merges) = 3
    /\ merges[1].before = NoFile
    /\ <<merges[1].agent, merges[2].agent, merges[3].agent>>
         = <<"Claude", "Windsurf", "Cursor">>
    /\ FileLines(gitignore)
         = <<GITIGNORE_HEADER, <<"CLAUDE.md">>, <<"global_rules.md">>,
             <<".windsurf", "/">>, <<".cursor", "/">>, GITIGNORE_FOOTER>>

\* a pattern found before the start marker is not put into the section
C29_PatternStaysOutsideSection ==
    /\ Len(merges) = 1
    /\ merges[1].agent = "Cursor"
    /\ merges[1].before = Some(JoinLines(<< <<"/", ".cursor", "/">> >>))
    /\ SectionSet(gitignore) = {}

(***************************************************************************)
(* C30: a write failure during a Cursor conversion stops the conversion at *)
(* the first failing rule with an error and without rollback: the files of *)
(* the rules that precede it in the list remain written, no file is        *)
(* written for any rule that follows it, and the .cursor/rules directory,  *)
(* created before the first write, remains.                                *)
(***************************************************************************)
\* the rule whose write failed: operation 1 creates the directory and
\* operation k + 1 writes rule k
FailedRule == Unwrap(outcome).failed - 1

CursorWriteFailed == Called("Cursor") /\ Unwrap(outcome).failed >= 2

\* among the rules before the failing one, none after i has the name of i
LastBeforeFailure(i) ==
    \A j \in (i + 1)..(FailedRule - 1) : rules[j].name # rules[i].name

C30_WriteFailureStopsWithoutRollback ==
    CursorWriteFailed =>
        /\ Unwrap(outcome).result = "Err"
        /\ <<".cursor", "rules">> \in dirs
        /\ \A i \in 1..(FailedRule - 1) :
               LastBeforeFailure(i) =>
                   LET p == <<".cursor", "rules", <<rules[i].name, ".mdc">>>> IN
                   p \in DOMAIN files /\ files[p] = mdc_content(rules[i])
        /\ \A j \in (FailedRule + 1)..Len(rules) :
               (\A i \in 1..FailedRule : rules[i].name # rules[j].name) =>
                   <<".cursor", "rules", <<rules[j].name, ".mdc">>>> \notin DOMAIN files

\* the write of the second of two rules fails: the file of the first stays
C30_Witness ==
    /\ CursorWriteFailed
    /\ FailedRule = 2
    /\ Len(rules) = 2
    /\ rules[1].name = "a" /\ rules[2].name = "b"
    /\ Unwrap(outcome).result = "Err"
    /\ <<".cursor", "rules">> \in dirs
    /\ DOMAIN files = { <<".cursor", "rules", <<"a", ".mdc">>>> }
    /\ files[<<".cursor", "rules", <<"a", ".mdc">>>>] = mdc_content(rules[1])

\* the write of the first of two rules fails: nothing is written for the second
C30_NothingWrittenAfterFailure ==
    /\ CursorWriteFailed
    /\ FailedRule = 1
    /\ Len(rules) = 2
    /\ rules[1].name # rules[2].name
    /\ <<".cursor", "rules">> \in dirs
    /\ DOMAIN files = {}

====
